---------------------------- MODULE Spec2Model ----------------------------
(***************************************************************************)
(* A model of the ANTsRegistration module of SlicerANTs                    *)
(* (src/ANTsRegistration/ANTsRegistration.py).                             *)
(*                                                                         *)
(* Two parts share the module:                                             *)
(*   - the widget (ANTsRegistrationWidget): the parameter node (the        *)
(*     store), the widgets' values, the re-entrancy guard and the GUI      *)
(*     handlers, each with the refresh its store write triggers;           *)
(*     specification Spec.                                                 *)
(*   - the driver (ANTsRegistrationLogic.process): one run over a          *)
(*     pipeline of stages against the engine; specification SpecRun.       *)
(*                                                                         *)
(* Python values: None is the string NoneRef, a node ID is a string, a     *)
(* dict is a function on its keys (a stage may lack keys), a list is a     *)
(* sequence (1-based here, 0-based in the source).                         *)
(***************************************************************************)
EXTENDS Integers, Sequences, FiniteSets, TLC

(***************************************************************************)
(* Bounds of the model.                                                    *)
(***************************************************************************)
\* The stages table accepts a new row only below this many rows.
MaxStages == 3
\* The number of stages of the pipelines handed to process().
MaxRunStages == 3
\* The number of things the user does to the widgets in one behaviour.
MaxOps == 4

(***************************************************************************)
(* Python values.                                                          *)
(***************************************************************************)
\* Python's None (JSON null once loaded).
NoneRef == "<None>"
\* The empty string: currentNodeID of a node selector with no node.
EmptyRef == ""

\* An empty dict, the {} that setStagesTransformsToStagesList appends.
EmptyDict == [k \in {} |-> k]

\* d[k] = v on a dict.
DictSet(d, k, v) == [x \in (DOMAIN d) \cup {k} |-> IF x = k THEN v ELSE d[x]]

\* Python's truth value of a reference: None and "" are false.
Truthy(r) == r # NoneRef /\ r # EmptyRef

\* The 1-based position list[i] reads for a 0-based Python index i (negative
\* indices count from the end), 0 when Python raises IndexError.
PyIndex(list, i) ==
    IF 0 <= i /\ i < Len(list) THEN i + 1
    ELSE IF i < 0 /\ -i <= Len(list) THEN Len(list) + i + 1
    ELSE 0

\* The sequence s without its element at (1-based) position p.
RemoveAt(s, p) == [i \in 1..(Len(s) - 1) |-> IF i < p THEN s[i] ELSE s[i + 1]]

\* str(n) and int(s) on the integers the model stores as text.
StoredInts == (-2)..(MaxStages + 1)
StrOfInt(n) ==
    CASE n = -2 -> "-2" [] n = -1 -> "-1" [] n = 0 -> "0" [] n = 1 -> "1" [] n = 2 -> "2"
      [] n = 3 -> "3" [] n = 4 -> "4" [] n = 5 -> "5" [] OTHER -> "6"
IsIntStr(s) == \E n \in StoredInts : StrOfInt(n) = s
IntOfStr(s) == CHOOSE n \in StoredInts : StrOfInt(n) = s

\* The floats of the winsorize bounds, in thousandths, with str() and
\* float() on them.
StoredFloats == {0, 5, 995, 1000}
StrOfFloat(x) ==
    CASE x = 0 -> "0.0" [] x = 5 -> "0.005" [] x = 995 -> "0.995" [] OTHER -> "1.0"
IsFloatStr(s) == \E x \in StoredFloats : StrOfFloat(x) = s
FloatOfStr(s) == CHOOSE x \in StoredFloats : StrOfFloat(x) = s

(***************************************************************************)
(* json.dumps / json.loads on a stages list.  The document is its tree;    *)
(* a reference leaf is null or a string, the other leaves are the JSON     *)
(* strings and numbers of the Python strings and numbers.                  *)
(***************************************************************************)
JsonNull == <<"null">>
JsonString(s) == <<"string", s>>

JsonDumpsRef(r) == IF r = NoneRef THEN JsonNull ELSE JsonString(r)
JsonLoadsRef(j) == IF j = JsonNull THEN NoneRef ELSE j[2]

JsonDumpsMetric(m) ==
    [type |-> m.type, fixed |-> JsonDumpsRef(m.fixed),
     moving |-> JsonDumpsRef(m.moving), settings |-> m.settings]
JsonLoadsMetric(j) ==
    [type |-> j.type, fixed |-> JsonLoadsRef(j.fixed),
     moving |-> JsonLoadsRef(j.moving), settings |-> j.settings]

JsonDumpsStage(stage) ==
    [k \in DOMAIN stage |->
        CASE k = "metrics" ->
               [i \in DOMAIN stage[k] |-> JsonDumpsMetric(stage[k][i])]
          [] k = "masks" ->
               [fixed |-> JsonDumpsRef(stage[k].fixed),
                moving |-> JsonDumpsRef(stage[k].moving)]
          [] OTHER -> stage[k]]
JsonLoadsStage(doc) ==
    [k \in DOMAIN doc |->
        CASE k = "metrics" ->
               [i \in DOMAIN doc[k] |-> JsonLoadsMetric(doc[k][i])]
          [] k = "masks" ->
               [fixed |-> JsonLoadsRef(doc[k].fixed),
                moving |-> JsonLoadsRef(doc[k].moving)]
          [] OTHER -> doc[k]]

JsonDumps(stagesList) == [i \in DOMAIN stagesList |-> JsonDumpsStage(stagesList[i])]
JsonLoads(text) == [i \in DOMAIN text |-> JsonLoadsStage(text[i])]


(***************************************************************************)
(* The preset documents of Resources/Presets and the values the widgets    *)
(* offer.  A preset carries no image or mask binding (null).               *)
(***************************************************************************)
RigidTransform == [transform |-> "Rigid", settings |-> <<"0.2">>]
AffineTransform == [transform |-> "Affine", settings |-> <<"0.1">>]
SyNTransform == [transform |-> "SyN", settings |-> <<"0.1", "3", "0">>]

MattesSettings == <<"1", "32", "Regular", "0.25", "0">>
CCSettings == <<"1", "4", "None", "1", "1">>

MetricOf(type, settings, fixed, moving) ==
    [type |-> type, fixed |-> fixed, moving |-> moving, settings |-> settings]

LevelStep(convergence, sigma, shrink) ==
    [convergence |-> convergence, smoothingSigmas |-> sigma, shrinkFactors |-> shrink]
OneLevel ==
    [steps |-> <<LevelStep(1000, 0, 1)>>, smoothingSigmasUnit |-> "vox",
     convergenceThreshold |-> 6, convergenceWindowSize |-> 10]
ThreeLevels ==
    [steps |-> <<LevelStep(100, 2, 4), LevelStep(70, 1, 2), LevelStep(20, 0, 1)>>,
     smoothingSigmasUnit |-> "mm",
     convergenceThreshold |-> 6, convergenceWindowSize |-> 10]

StageOf(transformParameters, metrics, levels, masks) ==
    [transformParameters |-> transformParameters, metrics |-> metrics,
     levels |-> levels, masks |-> masks]

NoMasks == [fixed |-> NoneRef, moving |-> NoneRef]

RigidPresetStage ==
    StageOf(RigidTransform, <<MetricOf("Mattes", MattesSettings, NoneRef, NoneRef)>>,
            OneLevel, NoMasks)
AffinePresetStage ==
    StageOf(AffineTransform, <<MetricOf("Mattes", MattesSettings, NoneRef, NoneRef)>>,
            OneLevel, NoMasks)
SyNPresetStage ==
    StageOf(SyNTransform, <<MetricOf("CC", CCSettings, NoneRef, NoneRef)>>,
            ThreeLevels, NoMasks)

PresetDocument(stages) ==
    [stages |-> stages,
     outputSettings |-> [interpolation |-> "Linear", useDisplacementField |-> 0],
     initialTransformSettings |-> [initializationFeature |-> 0],
     generalSettings |->
        [dimensionality |-> 3, histogramMatching |-> 0,
         winsorizeImageIntensities |-> <<5, 995>>,
         computationPrecision |-> "float"]]

\* The presets shipped with the module: the default one and the one the
\* test loads.
BundledPresetNames == {"Rigid", "QuickSyN"}
PresetFile(name) ==
    IF name = "Rigid"
    THEN PresetDocument(<<RigidPresetStage>>)
    ELSE PresetDocument(<<RigidPresetStage, AffinePresetStage, SyNPresetStage>>)

\* The names the save dialog is answered with.
SaveNames == {"my_preset", "Rigid"}

\* What the user can pick or type in the widgets.
FixedChoices == {EmptyRef, "vol1"}
MovingChoices == {EmptyRef, "vol2"}
TransformChoices == {RigidTransform, SyNTransform}
MetricChoices == {[type |-> "Mattes", settings |-> MattesSettings],
                  [type |-> "CC", settings |-> CCSettings]}
LevelsChoices == {OneLevel, ThreeLevels}
FixedMaskChoices == {EmptyRef, "mask1"}
MovingMaskChoices == {EmptyRef}
LinkFields == {"metrics", "levels", "masks"}
OutputVolumeChoices == {EmptyRef, "outVolume"}

(***************************************************************************)
(* State.                                                                  *)
(***************************************************************************)
VARIABLES
    parameterNode,     \* self._parameterNode: NoParameterNode or the store
    ui,                \* the values the widgets hold
    updatingGUIFromParameterNode,  \* self._updatingGUIFromParameterNode
    presetFiles,       \* Resources/Presets: the text of <name>.json by name
    lastOp,            \* history: the handler that ran last and how it ended
    opCount            \* history: how many handlers have run

guiVars == <<parameterNode, ui, updatingGUIFromParameterNode, presetFiles,
             lastOp, opCount>>

\* json.dump(saveSettings, outfile) and json.load(presetFile)
JsonDumpPreset(document) == [document EXCEPT !.stages = JsonDumps(@)]
JsonLoadPreset(text) == [text EXCEPT !.stages = JsonLoads(@)]

\* The Presets directory as the module ships it.
BundledPresets == [name \in BundledPresetNames |-> JsonDumpPreset(PresetFile(name))]

\* The names whose file name begins with a dot: the empty name is saved as
\* ".json".  glob's "*.json" does not match a file name that begins with a
\* dot.
DotNames == {""}

\* PresetManager.getPresetNames: the names of the files glob gives for
\* "*.json".
getPresetNames(files) == {name \in DOMAIN files : name \notin DotNames}

\* The names the preset selector lists.
PresetNames == getPresetNames(presetFiles)

\* PresetManager.getPresetParametersByName: the parsed preset file.
getPresetParametersByName(name) == JsonLoadPreset(presetFiles[name])

\* The driver's state (ANTsRegistrationLogic.process).
VARIABLES
    parameters,             \* the arguments of process()
    pc,                     \* where the run is: Idle, Init, PerStage, Finalize, Done, Failed
    stage_index,            \* the loop's stage_index
    initial_itk_transform,  \* the loop's initial_itk_transform
    ants_reg,               \* the engine object and what its setters were given
    engineLog,              \* history: one record per ants_reg.Update() call
    events,                 \* history: phases entered, pump points, output writes
    nodes,                  \* the content of the scene's transform and volume nodes
    tempFiles,              \* slicer.app.temporaryPath: the tempTransform files left in it
    suspendedRuns           \* the calls of process() waiting inside processEvents for a later call

runVars == <<parameters, pc, stage_index, initial_itk_transform, ants_reg,
             engineLog, events, nodes, tempFiles, suspendedRuns>>

vars == <<guiVars, runVars>>

\* self._parameterNode is None
NoParameterNode == [isNone |-> TRUE]

\* ANTsRegistrationLogic.params: the keys of the store.  Parameters are
\* strings ("" when never set), node references are node IDs.
EmptyParameterNode ==
    [isNone |-> FALSE,
     StagesJson |-> <<>>, hasStagesJson |-> FALSE,
     CurrentStage |-> "",
     OutputForwardTransform |-> EmptyRef,
     OutputInverseTransform |-> EmptyRef,
     OutputVolume |-> EmptyRef,
     InitialTransform |-> EmptyRef,
     OutputInterpolation |-> "",
     OutputDisplacementField |-> "",
     initializationFeature |-> "",
     Dimensionality |-> "",
     HistogramMatching |-> "",
     WinsorizeImageIntensities |-> <<>>,
     ComputationPrecision |-> ""]

\* "not parameterNode.GetParameter(key)": the key holds the empty string
\* (the winsorize pair: nothing to split).
NotSet(node, key) ==
    IF key = "WinsorizeImageIntensities" THEN node[key] = <<>> ELSE node[key] = ""

\* A default that is written whatever the key holds.
setAlways(node, key, value) == [node EXCEPT ![key] = value]

\* One "if not parameterNode.GetParameter(key): SetParameter(key, value)"
setDefault(node, key, value) ==
    IF NotSet(node, key) THEN [node EXCEPT ![key] = value] ELSE node

\* The stages of setDefaultParameters: written when the key was never set.
setDefaultStages(node, stages) ==
    IF node.hasStagesJson THEN node
    ELSE [node EXCEPT !.StagesJson = JsonDumps(stages), !.hasStagesJson = TRUE]

\* A reference to no node is set to "".
setDefaultReferences(node) ==
    [node EXCEPT !.OutputForwardTransform = IF Truthy(@) THEN @ ELSE EmptyRef,
                 !.OutputInverseTransform = IF Truthy(@) THEN @ ELSE EmptyRef,
                 !.OutputVolume = IF Truthy(@) THEN @ ELSE EmptyRef,
                 !.InitialTransform = IF Truthy(@) THEN @ ELSE EmptyRef]

\* ANTsRegistrationLogic.setDefaultParameters: every key that is unset
\* receives the value of the Rigid preset; a set key is left alone.
setDefaultParametersFrom(node, presetParameters) ==
    LET n1 == setDefaultStages(node, presetParameters.stages)
        n2 == setDefault(n1, "CurrentStage", "0")
        n3 == setDefault(n2, "OutputInterpolation",
                         presetParameters.outputSettings.interpolation)
        n4 == setDefault(n3, "OutputDisplacementField", "0")
        n5 == setDefault(n4, "initializationFeature", StrOfInt(
                  presetParameters.initialTransformSettings.initializationFeature))
        n6 == setDefault(n5, "Dimensionality",
                         StrOfInt(presetParameters.generalSettings.dimensionality))
        n7 == setDefault(n6, "HistogramMatching",
                         StrOfInt(presetParameters.generalSettings.histogramMatching))
        n8 == setDefault(n7, "WinsorizeImageIntensities",
                         [k \in 1..2 |-> StrOfFloat(
                             presetParameters.generalSettings.winsorizeImageIntensities[k])])
        n9 == setDefault(n8, "ComputationPrecision",
                         presetParameters.generalSettings.computationPrecision)
    IN  setDefaultReferences(n9)

setDefaultParameters(node) ==
    setDefaultParametersFrom(node, getPresetParametersByName("Rigid"))

\* slicer.util.getNode(id) if id else "": the model names a node by its ID.
getNodeOrEmpty(id) == IF Truthy(id) THEN id ELSE EmptyRef

\* paramNode.GetNodeReference(ref): the node, None when none is referenced.
GetNodeReference(node, ref) == IF Truthy(node[ref]) THEN node[ref] ELSE NoneRef

\* The stages of createProcessParameters: the IDs of every metric's images
\* and of the masks replaced by their nodes.
stagesWithNodes(stages) ==
    [i \in DOMAIN stages |->
        [stages[i] EXCEPT
           !.metrics = [k \in DOMAIN stages[i].metrics |->
                          [stages[i].metrics[k] EXCEPT
                             !.fixed = getNodeOrEmpty(@),
                             !.moving = getNodeOrEmpty(@)]],
           !.masks = [fixed |-> getNodeOrEmpty(stages[i].masks.fixed),
                      moving |-> getNodeOrEmpty(stages[i].masks.moving)]]]

\* ANTsRegistrationLogic.createProcessParameters: [raised, parameters].  A
\* stage without metrics or masks raises KeyError, a scalar that is no
\* number ValueError.
createProcessParameters(paramNode) ==
    IF \/ \E i \in DOMAIN paramNode.StagesJson :
             ~({"metrics", "masks"} \subseteq DOMAIN JsonLoads(paramNode.StagesJson)[i])
       \/ ~IsIntStr(paramNode.OutputDisplacementField)
       \/ ~IsIntStr(paramNode.initializationFeature)
       \/ ~IsIntStr(paramNode.Dimensionality)
       \/ ~IsIntStr(paramNode.HistogramMatching)
       \/ paramNode.WinsorizeImageIntensities = <<>>
       \/ \E k \in DOMAIN paramNode.WinsorizeImageIntensities :
              ~IsFloatStr(paramNode.WinsorizeImageIntensities[k])
    THEN [raised |-> TRUE, parameters |-> [none |-> TRUE]]
    ELSE [raised |-> FALSE,
          parameters |->
            [stages |-> stagesWithNodes(JsonLoads(paramNode.StagesJson)),
             outputSettings |->
               [forwardTransform |-> GetNodeReference(paramNode, "OutputForwardTransform"),
                inverseTransform |-> GetNodeReference(paramNode, "OutputInverseTransform"),
                volume |-> GetNodeReference(paramNode, "OutputVolume"),
                interpolation |-> paramNode.OutputInterpolation,
                useDisplacementField |-> IntOfStr(paramNode.OutputDisplacementField)],
             initialTransformSettings |->
               [initializationFeature |-> IntOfStr(paramNode.initializationFeature),
                initialTransformNode |-> GetNodeReference(paramNode, "InitialTransform")],
             generalSettings |->
               [dimensionality |-> IntOfStr(paramNode.Dimensionality),
                histogramMatching |-> IntOfStr(paramNode.HistogramMatching),
                winsorizeImageIntensities |->
                    [k \in DOMAIN paramNode.WinsorizeImageIntensities |->
                        FloatOfStr(paramNode.WinsorizeImageIntensities[k])],
                computationPrecision |-> paramNode.ComputationPrecision]]]

(***************************************************************************)
(* The widgets.                                                            *)
(***************************************************************************)
\* qMRMLNodeComboBox.setCurrentNodeID followed by currentNodeID: no node
\* (None or "") reads back as "".
setCurrentNodeID(id) == IF Truthy(id) THEN id ELSE EmptyRef

\* The widgets before the first refresh.
InitialUi ==
    [fixedImageNode |-> EmptyRef, movingImageNode |-> EmptyRef,
     stagesRows |-> <<>>, selectedRow |-> -1,
     metrics |-> <<>>, levels |-> OneLevel,
     fixedMask |-> EmptyRef, movingMask |-> EmptyRef,
     linkMetrics |-> FALSE, linkLevels |-> FALSE, linkMasks |-> FALSE,
     outputForwardTransform |-> EmptyRef, outputInverseTransform |-> EmptyRef,
     outputVolume |-> EmptyRef, outputInterpolation |-> "Linear",
     outputDisplacementField |-> FALSE,
     initialTransformTypeIndex |-> 0, initialTransformNode |-> EmptyRef,
     dimensionality |-> 3, histogramMatching |-> FALSE,
     winsorize |-> <<5, 995>>, computationPrecision |-> "float",
     presetText |-> "Select...", runEnabled |-> FALSE]

\* StagesTable.getSelectedRow after view.setCurrentIndex(model.index(row, 0))
\* and setGUIFromParameters(rows): the row asked for when the table has it,
\* no selection (-1) otherwise.
setCurrentIndex(rows, row) == IF 0 <= row /\ row < Len(rows) THEN row ELSE -1

\* ANTsRegistrationWidget.setCurrentStagePropertiesGUIFromList: the widgets
\* after it, or "raised" when stagesList[currentStage] is no stage.  A
\* stage lacking metrics, levels or masks leaves the widgets as they are.
setCurrentStagePropertiesGUIFromList(u, stagesList, currentStage) ==
    LET p == PyIndex(stagesList, currentStage)
    IN  IF p = 0 THEN [raised |-> TRUE, ui |-> u]
        ELSE IF {"metrics", "levels", "masks"} \subseteq DOMAIN stagesList[p]
        THEN [raised |-> FALSE,
              ui |-> [u EXCEPT !.metrics = stagesList[p].metrics,
                               !.levels = stagesList[p].levels,
                               !.fixedMask = setCurrentNodeID(stagesList[p].masks.fixed),
                               !.movingMask = setCurrentNodeID(stagesList[p].masks.moving)]]
        ELSE [raised |-> FALSE, ui |-> u]

\* ANTsRegistrationWidget.updateStagesGUIFromParameter (with
\* setTransformsGUIFromList): the image selectors follow stage 0, the stages
\* table the transforms of all stages, the properties the current stage.
updateStagesGUIFromParameter(u, node, currentStage) ==
    LET stagesList == JsonLoads(node.StagesJson)
    IN  IF Len(stagesList) = 0 \/ "metrics" \notin DOMAIN stagesList[1]
           \/ Len(stagesList[1].metrics) = 0
        THEN [raised |-> TRUE, ui |-> u]
        ELSE LET rows == [i \in DOMAIN stagesList |-> stagesList[i].transformParameters]
                 u1 == [u EXCEPT
                          !.fixedImageNode = setCurrentNodeID(stagesList[1].metrics[1].fixed),
                          !.movingImageNode = setCurrentNodeID(stagesList[1].metrics[1].moving),
                          !.stagesRows = rows,
                          !.selectedRow = setCurrentIndex(rows, u.selectedRow)]
             IN  setCurrentStagePropertiesGUIFromList(u1, stagesList, currentStage)

\* The rest of ANTsRegistrationWidget.updateGUIFromParameterNode: the
\* output, initial-transform and general widgets and the Run button.
updateSettingsGUIFromParameterNode(u, node) ==
    IF ~IsIntStr(node.OutputDisplacementField) \/ ~IsIntStr(node.initializationFeature)
       \/ ~IsIntStr(node.Dimensionality) \/ ~IsIntStr(node.HistogramMatching)
       \/ Len(node.WinsorizeImageIntensities) < 2
       \/ \E k \in DOMAIN node.WinsorizeImageIntensities :
              ~IsFloatStr(node.WinsorizeImageIntensities[k])
    THEN [raised |-> TRUE, ui |-> u]
    ELSE LET typeIndex == IntOfStr(node.initializationFeature) + 2
             u1 == [u EXCEPT
                      !.outputForwardTransform = node.OutputForwardTransform,
                      !.outputInverseTransform = node.OutputInverseTransform,
                      !.outputVolume = node.OutputVolume,
                      !.outputInterpolation = node.OutputInterpolation,
                      !.outputDisplacementField = (IntOfStr(node.OutputDisplacementField) # 0),
                      !.initialTransformTypeIndex = typeIndex,
                      !.initialTransformNode =
                          IF typeIndex = 1 THEN node.InitialTransform ELSE EmptyRef,
                      !.dimensionality = IntOfStr(node.Dimensionality),
                      !.histogramMatching = (IntOfStr(node.HistogramMatching) # 0),
                      !.winsorize = <<FloatOfStr(node.WinsorizeImageIntensities[1]),
                                      FloatOfStr(node.WinsorizeImageIntensities[2])>>,
                      !.computationPrecision = node.ComputationPrecision]
         IN  [raised |-> FALSE,
              ui |-> [u1 EXCEPT !.runEnabled =
                        /\ Truthy(u1.fixedImageNode)
                        /\ Truthy(u1.movingImageNode)
                        /\ \/ Truthy(u1.outputForwardTransform)
                           \/ Truthy(u1.outputInverseTransform)
                           \/ Truthy(u1.outputVolume)]]

\* A refresh that does not set the guard.
leaveGuard(updating) == updating

\* self._updatingGUIFromParameterNode = True, on entry of the refresh
enterRefresh(updating) == TRUE

\* ANTsRegistrationWidget.updateGUIFromParameterNode, the refresh:
\* [ui, updating, outcome].  It returns at once without a store or while a
\* refresh is being applied; the guard is set on entry and cleared on the
\* last line only, so an exception on the way leaves it set.  The handlers
\* the widgets' change signals call meanwhile all return on the guard.
updateGUIFromParameterNode(node, u, updating) ==
    IF node.isNone \/ updating
    THEN [ui |-> u, updating |-> updating, outcome |-> "returned"]
    ELSE IF ~IsIntStr(node.CurrentStage)
    THEN [ui |-> u, updating |-> enterRefresh(updating), outcome |-> "raised"]
    ELSE LET currentStage == IntOfStr(node.CurrentStage)
             u1 == [u EXCEPT !.selectedRow = currentStage]
             r2 == updateStagesGUIFromParameter(u1, node, currentStage)
             r3 == updateSettingsGUIFromParameterNode(r2.ui, node)
         IN  IF r2.raised
             THEN [ui |-> r2.ui, updating |-> enterRefresh(updating),
                   outcome |-> "raised"]
             ELSE IF r3.raised
             THEN [ui |-> r3.ui, updating |-> enterRefresh(updating),
                   outcome |-> "raised"]
             ELSE [ui |-> r3.ui, updating |-> FALSE, outcome |-> "completed"]

(***************************************************************************)
(* Store writes and their notification.  SetParameter and                  *)
(* SetNodeReferenceID invoke ModifiedEvent when they change a value;       *)
(* between StartModify and EndModify the events are held back and          *)
(* EndModify invokes one if any write changed a value.                     *)
(***************************************************************************)
\* parameterNode.SetParameter(key, value) / SetNodeReferenceID(key, value)
SetParameter(node, key, value) ==
    [node EXCEPT ![key] = value,
                 !.hasStagesJson = @ \/ key = "StagesJson"]

\* The store after a sequence of writes <<key, value>>.
RECURSIVE SetParameters(_, _)
SetParameters(node, writes) ==
    IF writes = <<>> THEN node
    ELSE SetParameters(SetParameter(node, writes[1][1], writes[1][2]), Tail(writes))

\* The stores ModifiedEvent is invoked with when no batch is open: the
\* store after every write that changes a value.
RECURSIVE EventsPerWrite(_, _)
EventsPerWrite(node, writes) ==
    IF writes = <<>> THEN <<>>
    ELSE IF node[writes[1][1]] = writes[1][2]
    THEN EventsPerWrite(node, Tail(writes))
    ELSE <<SetParameter(node, writes[1][1], writes[1][2])>> \o
         EventsPerWrite(SetParameter(node, writes[1][1], writes[1][2]), Tail(writes))

\* A store that announces every write although a batch is open.
EventsIgnoringBatch(node, writes, batched) == EventsPerWrite(node, writes)

\* A store that announces a write although it changes nothing.
EventsOfEveryBatch(node, writes, batched) == <<SetParameters(node, writes)>>

\* The stores ModifiedEvent is invoked with for the writes of one handler:
\* inside StartModify/EndModify one event, with the store after the last
\* write, if a write changed a value.
ModifiedEvents(node, writes, batched) ==
    IF ~batched THEN EventsPerWrite(node, writes)
    ELSE IF SetParameters(node, writes) = node THEN <<>>
    ELSE <<SetParameters(node, writes)>>

\* What a handler leaves: its outcome, the store, the events of its writes.
NoWrite(outcome, node) == [outcome |-> outcome, node |-> node, modified |-> <<>>]
Write(node, writes, batched) ==
    [outcome |-> "done", node |-> SetParameters(node, writes),
     modified |-> ModifiedEvents(node, writes, batched)]

(***************************************************************************)
(* The handlers.  Each gives [outcome, node, modified]: "dropped" when it  *)
(* returns on its guard, "raised" when a Python exception ends it before   *)
(* it writes, "returned" for another early return, "done" when it wrote    *)
(* the store; modified holds the stores its ModifiedEvents are invoked     *)
(* with.                                                                   *)
(***************************************************************************)
\* ANTsRegistrationWidget.updateStagesFromFixedMovingNodes
updateStagesFromFixedMovingNodes(node, u, updating) ==
    IF node.isNone \/ updating THEN NoWrite("dropped", node)
    ELSE LET stagesList == JsonLoads(node.StagesJson)
         IN  IF \E i \in DOMAIN stagesList :
                    \/ "metrics" \notin DOMAIN stagesList[i]
                    \/ Len(stagesList[i].metrics) = 0
             THEN NoWrite("raised", node)
             ELSE LET new == [i \in DOMAIN stagesList |->
                                [stagesList[i] EXCEPT
                                   !.metrics[1].fixed = u.fixedImageNode,
                                   !.metrics[1].moving = u.movingImageNode]]
                  IN  Write(node, <<<<"StagesJson", JsonDumps(new)>>>>, FALSE)

\* ANTsRegistrationWidget.setStagesTransformsToStagesList: every row of the
\* stages table gives its stage's transformParameters; a row past the end
\* of the list appends a stage, {}, that holds nothing else.
setStagesTransformsToStagesList(stagesList, rows) ==
    LET n == IF Len(rows) > Len(stagesList) THEN Len(rows) ELSE Len(stagesList)
    IN  [i \in 1..n |->
            IF i <= Len(rows)
            THEN DictSet(IF i <= Len(stagesList) THEN stagesList[i] ELSE EmptyDict,
                         "transformParameters", rows[i])
            ELSE stagesList[i]]

\* An iterator that ignores the link button.
currentStageIterator(stagesList, linked, currentStage) ==
    {PyIndex(stagesList, currentStage)}

\* An iterator that always takes every stage.
allStagesIterator(stagesList, linked, currentStage) == DOMAIN stagesList

\* The stages one field is written to: all of them when its link button is
\* checked, the current one otherwise.
stagesIterator(stagesList, linked, currentStage) ==
    IF linked THEN DOMAIN stagesList ELSE {PyIndex(stagesList, currentStage)}

\* ANTsRegistrationWidget.setCurrentStagePropertiesToStagesList:
\* [raised, stagesList].  An unlinked field with a current stage that is no
\* index of the list raises IndexError.
setCurrentStagePropertiesToStagesList(stagesList, currentStage, u) ==
    LET toMetrics == stagesIterator(stagesList, u.linkMetrics, currentStage)
        toLevels == stagesIterator(stagesList, u.linkLevels, currentStage)
        toMasks == stagesIterator(stagesList, u.linkMasks, currentStage)
        set(stage, i) ==
            LET s1 == IF i \in toMetrics THEN DictSet(stage, "metrics", u.metrics)
                      ELSE stage
                s2 == IF i \in toLevels THEN DictSet(s1, "levels", u.levels) ELSE s1
            IN  IF i \in toMasks
                THEN DictSet(s2, "masks",
                             [fixed |-> u.fixedMask, moving |-> u.movingMask])
                ELSE s2
    IN  IF 0 \in (toMetrics \cup toLevels \cup toMasks)
        THEN [raised |-> TRUE, stagesList |-> stagesList]
        ELSE [raised |-> FALSE,
              stagesList |-> [i \in DOMAIN stagesList |-> set(stagesList[i], i)]]

\* ANTsRegistrationWidget.updateStagesParameterFromGUI
updateStagesParameterFromGUI(node, u, updating) ==
    IF node.isNone \/ updating THEN NoWrite("dropped", node)
    ELSE IF ~IsIntStr(node.CurrentStage) THEN NoWrite("raised", node)
    ELSE LET stagesList == JsonLoads(node.StagesJson)
             withTransforms == setStagesTransformsToStagesList(stagesList, u.stagesRows)
             r == setCurrentStagePropertiesToStagesList(
                      withTransforms, IntOfStr(node.CurrentStage), u)
         IN  IF r.raised THEN NoWrite("raised", node)
             ELSE Write(node, <<<<"StagesJson", JsonDumps(r.stagesList)>>>>, FALSE)

\* A current stage that is left where it was.
keepCurrentStage(currentStage) == currentStage

\* The index that replaces the current stage when a stage is removed.
currentStageAfterRemove(currentStage) ==
    IF currentStage - 1 > 0 THEN currentStage - 1 ELSE 0

\* A remove that does not look at the length of the list.
removeWithoutLengthCheck(node) ==
    LET stagesList == JsonLoads(node.StagesJson)
        currentStage == IntOfStr(node.CurrentStage)
    IN  Write(node,
              <<<<"CurrentStage",
                  StrOfInt(IF currentStage - 1 > 0 THEN currentStage - 1 ELSE 0)>>,
                <<"StagesJson",
                  JsonDumps(RemoveAt(stagesList, PyIndex(stagesList, currentStage)))>>>>,
              TRUE)

\* A remove that pops the last stage, stagesList.pop().
removeLastStage(node) ==
    LET stagesList == JsonLoads(node.StagesJson)
        currentStage == IntOfStr(node.CurrentStage)
    IN  IF Len(stagesList) = 1 THEN NoWrite("returned", node)
        ELSE Write(node,
                   <<<<"CurrentStage",
                       StrOfInt(IF currentStage - 1 > 0 THEN currentStage - 1 ELSE 0)>>,
                     <<"StagesJson", JsonDumps(RemoveAt(stagesList, Len(stagesList)))>>>>,
                   TRUE)

\* ANTsRegistrationWidget.onRemoveStageButtonClicked: it has no guard; it
\* returns when one stage is left, else pops the current stage and, in one
\* batch, writes the new current stage and the list.
onRemoveStageButtonClicked(node) ==
    IF node.isNone THEN NoWrite("raised", node)
    ELSE LET stagesList == JsonLoads(node.StagesJson)
         IN  IF Len(stagesList) = 1 THEN NoWrite("returned", node)
             ELSE IF ~IsIntStr(node.CurrentStage)
             THEN NoWrite("raised", node)
             ELSE LET currentStage == IntOfStr(node.CurrentStage)
                      p == PyIndex(stagesList, currentStage)
                  IN  IF p = 0 THEN NoWrite("raised", node)
                      ELSE Write(node,
                                 <<<<"CurrentStage",
                                     StrOfInt(currentStageAfterRemove(currentStage))>>,
                                   <<"StagesJson", JsonDumps(RemoveAt(stagesList, p))>>>>,
                                 TRUE)

\* A preset that leaves the current stage where it was.
presetKeepingCurrentStage(node, u, updating, presetName) ==
    IF presetName = "Select..." \/ node.isNone \/ updating
    THEN NoWrite("dropped", node)
    ELSE LET presetStages == getPresetParametersByName(presetName).stages
             stages == [i \in DOMAIN presetStages |->
                          [presetStages[i] EXCEPT
                             !.metrics[1].fixed = u.fixedImageNode,
                             !.metrics[1].moving = u.movingImageNode]]
         IN  Write(node, <<<<"StagesJson", JsonDumps(stages)>>>>, TRUE)

\* A preset whose stages are added to the list instead of replacing it.
appendPresetStages(node, u, updating, presetName) ==
    IF presetName = "Select..." \/ node.isNone \/ updating
    THEN NoWrite("dropped", node)
    ELSE LET presetStages == getPresetParametersByName(presetName).stages
             stages == [i \in DOMAIN presetStages |->
                          [presetStages[i] EXCEPT
                             !.metrics[1].fixed = u.fixedImageNode,
                             !.metrics[1].moving = u.movingImageNode]]
         IN  Write(node,
                   <<<<"StagesJson", JsonDumps(JsonLoads(node.StagesJson) \o stages)>>,
                     <<"CurrentStage", "0">>>>,
                   TRUE)

\* A handler that loads the whole preset document: the stages and the
\* document's general and output settings.
loadWholePreset(node, u, updating, presetName) ==
    IF presetName = "Select..." \/ node.isNone \/ updating
    THEN NoWrite("dropped", node)
    ELSE Write(node,
               <<<<"StagesJson", JsonDumps(getPresetParametersByName(presetName).stages)>>,
                 <<"CurrentStage", "0">>,
                 <<"Dimensionality", StrOfInt(
                     getPresetParametersByName(presetName).generalSettings.dimensionality)>>,
                 <<"OutputInterpolation",
                   getPresetParametersByName(presetName).outputSettings.interpolation>>>>,
               TRUE)

\* ANTsRegistrationWidget.onPresetSelected: in one batch, the preset's
\* stages bound to the selected images replace the list, and the current
\* stage is set to 0.
onPresetSelected(node, u, updating, presetName) ==
    IF presetName = "Select..." \/ node.isNone \/ updating
    THEN NoWrite("dropped", node)
    ELSE LET presetParameters == getPresetParametersByName(presetName)
             stages == [i \in DOMAIN presetParameters.stages |->
                          [presetParameters.stages[i] EXCEPT
                             !.metrics[1].fixed = u.fixedImageNode,
                             !.metrics[1].moving = u.movingImageNode]]
         IN  Write(node,
                   <<<<"StagesJson", JsonDumps(stages)>>, <<"CurrentStage", "0">>>>,
                   TRUE)

\* ANTsRegistrationWidget.updateParameterNodeFromGUI: in one batch, the
\* selected row and the output, initial-transform and general widgets.
updateParameterNodeFromGUI(node, u, updating) ==
    IF node.isNone \/ updating THEN NoWrite("dropped", node)
    ELSE Write(node,
               <<<<"CurrentStage", StrOfInt(u.selectedRow)>>,
                 <<"OutputForwardTransform", u.outputForwardTransform>>,
                 <<"OutputInverseTransform", u.outputInverseTransform>>,
                 <<"OutputVolume", u.outputVolume>>,
                 <<"OutputInterpolation", u.outputInterpolation>>,
                 <<"OutputDisplacementField",
                   StrOfInt(IF u.outputDisplacementField THEN 1 ELSE 0)>>,
                 <<"initializationFeature", StrOfInt(u.initialTransformTypeIndex - 2)>>,
                 <<"InitialTransform", u.initialTransformNode>>,
                 <<"Dimensionality", StrOfInt(u.dimensionality)>>,
                 <<"HistogramMatching", StrOfInt(IF u.histogramMatching THEN 1 ELSE 0)>>,
                 <<"WinsorizeImageIntensities",
                   <<StrOfFloat(u.winsorize[1]), StrOfFloat(u.winsorize[2])>>>>,
                 <<"ComputationPrecision", u.computationPrecision>>>>,
               TRUE)

(***************************************************************************)
(* Saving a preset.                                                        *)
(***************************************************************************)
\* The save dialog: one answer per time it is shown.  A name that exists
\* shows it again, so the answers before the last are existing names and
\* the last is Cancel or a name that does not exist yet.
MaxDialogs == 2
Cancel == [ok |-> FALSE, text |-> "my_preset"]
Answer(name) == [ok |-> TRUE, text |-> name]
Dialogs(names, files) ==
    {answers \in UNION {[1..n -> {Cancel} \cup {Answer(name) : name \in names}] :
                           n \in 1..MaxDialogs} :
        /\ \A i \in 1..(Len(answers) - 1) :
              answers[i].ok /\ answers[i].text \in getPresetNames(files)
        /\ answers[Len(answers)].ok =>
              answers[Len(answers)].text \notin getPresetNames(files)}
SaveDialogs == Dialogs(SaveNames, presetFiles)

\* A save that writes the Rigid document with its own stages.
saveRigidDocument(files, stages, answers, writable) ==
    IF answers[Len(answers)].ok /\ writable
    THEN [name |-> answers[Len(answers)].text,
          files |-> [name \in DOMAIN files \cup {answers[Len(answers)].text} |->
                       IF name \in DOMAIN files THEN files[name] ELSE files["Rigid"]]]
    ELSE [name |-> NoneRef, files |-> files]

\* PresetManager.saveStagesAsPreset: [name, files], the name None when the
\* dialog was cancelled or the file could not be written.
RECURSIVE saveStagesAsPreset(_, _, _, _)
saveStagesAsPreset(files, stages, answers, writable) ==
    IF ~answers[1].ok THEN [name |-> NoneRef, files |-> files]
    ELSE IF answers[1].text \in getPresetNames(files)
    THEN saveStagesAsPreset(files, stages, Tail(answers), writable)
    ELSE IF ~writable THEN [name |-> NoneRef, files |-> files]
    ELSE [name |-> answers[1].text,
          files |-> [name \in DOMAIN files \cup {answers[1].text} |->
                       IF name = answers[1].text
                       THEN JsonDumpPreset([JsonLoadPreset(files["Rigid"])
                                              EXCEPT !.stages = stages])
                       ELSE files[name]]]

\* A save that leaves the references in the stages.
keepReferences(stage) == stage

\* The stage as it is saved: the images of every metric and the masks None.
withoutReferences(stage) ==
    [stage EXCEPT
       !.metrics = [k \in DOMAIN stage.metrics |->
                      [stage.metrics[k] EXCEPT !.fixed = NoneRef, !.moving = NoneRef]],
       !.masks = [stage.masks EXCEPT !.fixed = NoneRef, !.moving = NoneRef]]

\* What the save leaves when PresetManager gave a name: the selector shows
\* the name, its signal calls onPresetSelected under the guard, and the
\* guard is cleared.
presetSaved(node, u, saved, selected) ==
    [outcome |-> "done", node |-> selected.node,
     ui |-> [u EXCEPT !.presetText = saved.name], updating |-> FALSE,
     files |-> saved.files, reentrant |-> <<selected.outcome>>]

savedOrNot(node, u, updating, saved) ==
    IF Truthy(saved.name)
    THEN presetSaved(node, u, saved,
                     onPresetSelected(node, u, TRUE, saved.name))
    ELSE [outcome |-> "returned", node |-> node, ui |-> u, updating |-> updating,
          files |-> saved.files, reentrant |-> <<>>]

\* ANTsRegistrationWidget.onSavePresetPushButton: it has no guard; a stage
\* without metrics or masks raises KeyError before anything is saved.
onSavePresetPushButton(node, u, updating, files, answers, writable) ==
    IF node.isNone \/ \E i \in DOMAIN node.StagesJson :
                         ~({"metrics", "masks"} \subseteq DOMAIN JsonLoads(node.StagesJson)[i])
    THEN [outcome |-> "raised", node |-> node, ui |-> u, updating |-> updating,
          files |-> files, reentrant |-> <<>>]
    ELSE savedOrNot(node, u, updating,
                    saveStagesAsPreset(
                        files,
                        [i \in DOMAIN node.StagesJson |->
                            withoutReferences(JsonLoads(node.StagesJson)[i])],
                        answers, writable))

(***************************************************************************)
(* The refresh as the store's observer.  The widgets the refresh sets      *)
(* emit their change signals, and the handlers connected to them run       *)
(* inside the refresh, with the guard as line 410 left it.                 *)
(***************************************************************************)
\* The widgets whose change signals are connected to one handler.
SettingsWidgets ==
    {"selectedRow", "outputForwardTransform", "outputInverseTransform",
     "outputVolume", "outputInterpolation", "outputDisplacementField",
     "initialTransformTypeIndex", "initialTransformNode", "dimensionality",
     "histogramMatching", "winsorize", "computationPrecision"}
ImageWidgets == {"fixedImageNode", "movingImageNode"}
StageWidgets == {"stagesRows", "metrics", "levels", "fixedMask", "movingMask"}

\* Some widget of the set holds another value: its signal is emitted.
Signals(widgets, before, after) == \E w \in widgets : before[w] # after[w]

\* One handler called by a signal: the store it leaves, its outcome noted.
called(sofar, r) ==
    [node |-> r.node, outcomes |-> Append(sofar.outcomes, r.outcome)]

\* The handlers the refresh's widget changes call, in the order of the
\* refresh; each sees the widgets as the refresh leaves them.
signalledHandlers(node, before, after, updating) ==
    LET c0 == [node |-> node, outcomes |-> <<>>]
        c1 == IF Signals(SettingsWidgets, before, after)
              THEN called(c0, updateParameterNodeFromGUI(c0.node, after, updating))
              ELSE c0
        c2 == IF Signals(ImageWidgets, before, after)
              THEN called(c1, updateStagesFromFixedMovingNodes(c1.node, after, updating))
              ELSE c1
    IN  IF Signals(StageWidgets, before, after)
        THEN called(c2, updateStagesParameterFromGUI(c2.node, after, updating))
        ELSE c2

\* The refresh with its signals: [ui, updating, outcome, node, reentrant].
refreshed(node, u, r, s) ==
    [ui |-> r.ui, updating |-> r.updating, outcome |-> r.outcome,
     node |-> s.node, reentrant |-> s.outcomes]

onParameterNodeModified(node, u, updating) ==
    IF node.isNone \/ updating
    THEN [ui |-> u, updating |-> updating, outcome |-> "returned",
          node |-> node, reentrant |-> <<>>]
    ELSE refreshed(node, u, updateGUIFromParameterNode(node, u, updating),
                   signalledHandlers(node, u,
                                     updateGUIFromParameterNode(node, u, updating).ui,
                                     enterRefresh(updating)))

\* ANTsRegistrationWidget.setParameterNode: defaults for a store, the
\* presets selector back on "Select..." (signals blocked), then a refresh.
setParameterNode(inputParameterNode, u, updating) ==
    LET node == IF inputParameterNode.isNone THEN inputParameterNode
                ELSE setDefaultParameters(inputParameterNode)
    IN  onParameterNodeModified(node, [u EXCEPT !.presetText = "Select..."], updating)

\* setup and enter: the store is set and the refresh called with it.
Setup(node) == [outcome |-> "done", node |-> node, modified |-> <<node>>]

\* The events of a handler's writes, delivered in order to the observer.
delivered(first, rest) ==
    [rest EXCEPT !.reentrant = first.reentrant \o @]

RECURSIVE Dispatch(_, _, _, _)
Dispatch(stores, node, u, updating) ==
    IF stores = <<>>
    THEN [ui |-> u, updating |-> updating, outcome |-> "none",
          node |-> node, reentrant |-> <<>>]
    ELSE IF Len(stores) = 1
    THEN onParameterNodeModified(stores[1], u, updating)
    ELSE delivered(onParameterNodeModified(stores[1], u, updating),
                   Dispatch(Tail(stores), node,
                            onParameterNodeModified(stores[1], u, updating).ui,
                            onParameterNodeModified(stores[1], u, updating).updating))

\* A handler has run on the widgets u (the user's change applied) and left
\* r: the refreshes of its events follow, and lastOp records the run.
Record(op, input, r, d) ==
    [op |-> op, outcome |-> r.outcome, refresh |-> d.outcome, input |-> input,
     seen |-> r.modified, reentrant |-> d.reentrant]

Finished(op, input, r, d) ==
    /\ opCount < MaxOps
    /\ opCount' = opCount + 1
    /\ parameterNode' = d.node
    /\ ui' = d.ui
    /\ updatingGUIFromParameterNode' = d.updating
    /\ lastOp' = Record(op, input, r, d)
    /\ UNCHANGED <<presetFiles, runVars>>

Finish(op, input, u, r) ==
    Finished(op, input, r,
             Dispatch(r.modified, r.node, u, updatingGUIFromParameterNode))

(***************************************************************************)
(* The widget's actions: what the user does to a widget, the handler the   *)
(* widget's signal is connected to, and the refresh the handler's store    *)
(* write triggers.                                                         *)
(***************************************************************************)
NoInput == [none |-> TRUE]

ImagesOf(u) == [fixed |-> u.fixedImageNode, moving |-> u.movingImageNode]

\* What updateStagesParameterFromGUI reads from the widgets.
EditOf(u, trigger) ==
    [trigger |-> trigger,
     links |-> [metrics |-> u.linkMetrics, levels |-> u.linkLevels,
                masks |-> u.linkMasks],
     written |-> [metrics |-> u.metrics, levels |-> u.levels,
                  masks |-> [fixed |-> u.fixedMask, moving |-> u.movingMask]]]

\* What updateParameterNodeFromGUI reads from the widgets.
SettingsOf(u) ==
    [row |-> u.selectedRow,
     outputForwardTransform |-> u.outputForwardTransform,
     outputInverseTransform |-> u.outputInverseTransform,
     outputVolume |-> u.outputVolume,
     outputInterpolation |-> u.outputInterpolation,
     outputDisplacementField |-> u.outputDisplacementField,
     initialTransformTypeIndex |-> u.initialTransformTypeIndex,
     initialTransformNode |-> u.initialTransformNode,
     dimensionality |-> u.dimensionality,
     histogramMatching |-> u.histogramMatching,
     winsorize |-> u.winsorize,
     computationPrecision |-> u.computationPrecision]

\* fixedImageNodeComboBox / movingImageNodeComboBox currentNodeChanged
ImageSelected(u) ==
    LET r == updateStagesFromFixedMovingNodes(parameterNode, u,
                                              updatingGUIFromParameterNode)
    IN  Finish("updateStagesFromFixedMovingNodes", ImagesOf(u), u, r)

SelectFixedImage ==
    \E f \in FixedChoices \ {ui.fixedImageNode} :
        ImageSelected([ui EXCEPT !.fixedImageNode = f])

SelectMovingImage ==
    \E m \in MovingChoices \ {ui.movingImageNode} :
        ImageSelected([ui EXCEPT !.movingImageNode = m])

\* The signals connected to updateStagesParameterFromGUI.
StagesEdited(u, trigger) ==
    LET r == updateStagesParameterFromGUI(parameterNode, u,
                                          updatingGUIFromParameterNode)
    IN  Finish("updateStagesParameterFromGUI", EditOf(u, trigger), u, r)

\* stagesTableWidget.model itemChanged: a row's transform is edited.
EditStageTransform ==
    \E row \in DOMAIN ui.stagesRows :
        \E tp \in TransformChoices \ {ui.stagesRows[row]} :
            StagesEdited([ui EXCEPT !.stagesRows[row] = tp], "transform")

\* stagesTableWidget.model itemChanged: a row is added below the last one.
AddStageRow ==
    /\ Len(ui.stagesRows) < MaxStages
    /\ \E tp \in TransformChoices :
          StagesEdited([ui EXCEPT !.stagesRows = Append(@, tp)], "addRow")

\* metricsTableWidget.model itemChanged
EditMetrics ==
    /\ Len(ui.metrics) > 0
    /\ \E mc \in MetricChoices :
          /\ mc.type # ui.metrics[1].type
          /\ StagesEdited([ui EXCEPT !.metrics[1].type = mc.type,
                                     !.metrics[1].settings = mc.settings],
                          "metrics")

\* levelsTableWidget.model itemChanged and the levels' other widgets
EditLevels ==
    \E l \in LevelsChoices \ {ui.levels} :
        StagesEdited([ui EXCEPT !.levels = l], "levels")

\* fixedMaskComboBox / movingMaskComboBox currentNodeChanged
EditMasks ==
    \E f \in FixedMaskChoices, m \in MovingMaskChoices :
        /\ <<f, m>> # <<ui.fixedMask, ui.movingMask>>
        /\ StagesEdited([ui EXCEPT !.fixedMask = f, !.movingMask = m], "masks")

\* the three link buttons, toggled
ToggleLink ==
    \E field \in LinkFields :
        StagesEdited(
            CASE field = "metrics" -> [ui EXCEPT !.linkMetrics = ~@]
              [] field = "levels" -> [ui EXCEPT !.linkLevels = ~@]
              [] OTHER -> [ui EXCEPT !.linkMasks = ~@],
            "link")

\* stagesTableWidget selectionChanged: the user selects another row.
SelectStageRow ==
    \E row \in 0..(Len(ui.stagesRows) - 1) :
        /\ row # ui.selectedRow
        /\ LET u == [ui EXCEPT !.selectedRow = row]
               r == updateParameterNodeFromGUI(parameterNode, u,
                                               updatingGUIFromParameterNode)
           IN  Finish("updateParameterNodeFromGUI", SettingsOf(u), u, r)

\* stagesTableWidget.removeButton clicked
RemoveStage ==
    LET r == onRemoveStageButtonClicked(parameterNode)
    IN  Finish("onRemoveStageButtonClicked",
               [currentStage |-> IF parameterNode.isNone THEN ""
                                 ELSE parameterNode.CurrentStage,
                count |-> IF parameterNode.isNone THEN 0
                          ELSE Len(parameterNode.StagesJson)],
               ui, r)

\* stagesPresetsComboBox currentTextChanged
SelectPreset ==
    \E presetName \in (PresetNames \cup {"Select..."}) \ {ui.presetText} :
        LET u == [ui EXCEPT !.presetText = presetName]
            r == onPresetSelected(parameterNode, u, updatingGUIFromParameterNode,
                                  presetName)
        IN  Finish("onPresetSelected",
                   [presetName |-> presetName, images |-> ImagesOf(u)], u, r)

\* savePresetPushButton clicked, the dialog answered
Saved(answers, writable, r) ==
    /\ opCount < MaxOps
    /\ opCount' = opCount + 1
    /\ parameterNode' = r.node
    /\ ui' = r.ui
    /\ updatingGUIFromParameterNode' = r.updating
    /\ presetFiles' = r.files
    /\ lastOp' = [op |-> "onSavePresetPushButton", outcome |-> r.outcome,
                  refresh |-> "none",
                  input |-> [answers |-> answers, writable |-> writable],
                  seen |-> <<>>, reentrant |-> r.reentrant]
    /\ UNCHANGED runVars

SavePreset ==
    \E answers \in SaveDialogs :
        \E writable \in (IF answers[Len(answers)].ok THEN BOOLEAN ELSE {TRUE}) :
            Saved(answers, writable,
                  onSavePresetPushButton(parameterNode, ui,
                                         updatingGUIFromParameterNode,
                                         presetFiles, answers, writable))

\* outputVolumeComboBox currentNodeChanged: one of the widgets connected to
\* updateParameterNodeFromGUI.
SelectOutputVolume ==
    \E volume \in OutputVolumeChoices \ {ui.outputVolume} :
        LET u == [ui EXCEPT !.outputVolume = volume]
            r == updateParameterNodeFromGUI(parameterNode, u,
                                            updatingGUIFromParameterNode)
        IN  Finish("updateParameterNodeFromGUI", SettingsOf(u), u, r)

(***************************************************************************)
(* The driver: ANTsRegistrationLogic.process.                              *)
(***************************************************************************)
\* The transforms: the identity built before the loop, and what the engine
\* returns for a stage (the engine is opaque: its result is any of
\* EngineResults).
IdentityTransform == [origin |-> "identity"]
UnsetTransform == [origin |-> "unset"]
EngineResults == {"r1", "r2"}
ForwardOf(stage, result) == [origin |-> "engine", direction |-> "forward",
                             stage |-> stage, result |-> result]
InverseOf(forward) == [forward EXCEPT !.direction = "inverse"]

\* The volume nodes of the scene and the dimension of their images.
NdimOf(volume) == IF volume \in {"slice2d", "mask2d"} THEN 2 ELSE 3
IsVolume(ref) == ref \in {"vol1", "vol2", "slice2d", "mask1", "mask2d"}

\* The output nodes and their content before a run.
OutputNodeIds == {"fwdNode", "invNode", "outVolume"}
EmptyContent == [origin |-> "empty"]

\* itk.ANTSRegistration[...].New(): nothing set yet.
NewAntsReg ==
    [FixedImage |-> "", MovingImage |-> "",
     InitialTransform |-> UnsetTransform,
     TypeOfTransform |-> "", GradientStep |-> "",
     NumberOfBins |-> "", Radius |-> "", SamplingRate |-> "",
     UseGradientFilter |-> FALSE,
     ShrinkFactors |-> <<>>, SmoothingSigmas |-> <<>>,
     SmoothingInPhysicalUnits |-> FALSE,
     AffineMetric |-> "", AffineIterations |-> <<>>,
     SynMetric |-> "", SynIterations |-> <<>>,
     FixedImageMask |-> "", MovingImageMask |-> "",
     ForwardTransform |-> UnsetTransform, InverseTransform |-> UnsetTransform,
     updated |-> FALSE]

\* Python's bool() of a string: every non-empty string is true.
BoolOfStr(text) == text # ""

AffineTransformTypes == {"Rigid", "Affine", "CompositeAffine", "Similarity", "Translation"}

\* A driver that forwards every transform type as it is.
forwardType(transform) == transform

\* The engine's name for a stage's transform: SyN is run as SyNOnly.
typeOfTransform(transform) == IF transform = "SyN" THEN "SyNOnly" ELSE transform

\* A mask is handed to the engine when it is neither None nor "".
hasMask(mask) == mask # NoneRef /\ mask # EmptyRef

\* The body of the loop of process() up to ants_reg.Update(): the engine
\* after the setters for one stage.  A setter that is not called leaves what
\* an earlier stage set.
configureStage(reg, stage, fixedImage, movingImage, initialTransform) ==
    LET transform_type == typeOfTransform(stage.transformParameters.transform)
        transform_settings == stage.transformParameters.settings
        metric_type == stage.metrics[1].type
        metric_settings == stage.metrics[1].settings
        steps == stage.levels.steps
        iterations == [i \in DOMAIN steps |-> steps[i].convergence]
        shrink_factors == [i \in DOMAIN steps |-> steps[i].shrinkFactors]
        sigmas == [i \in DOMAIN steps |-> steps[i].smoothingSigmas]
        r1 == [reg EXCEPT
                 !.FixedImage = fixedImage,
                 !.MovingImage = movingImage,
                 !.InitialTransform = initialTransform,
                 !.TypeOfTransform = transform_type,
                 !.GradientStep = transform_settings[1],
                 !.NumberOfBins = IF metric_type \in {"MI", "Mattes"}
                                  THEN metric_settings[2] ELSE @,
                 !.Radius = IF metric_type \in {"MI", "Mattes"}
                            THEN @ ELSE metric_settings[2],
                 !.SamplingRate = IF Len(metric_settings) > 3
                                  THEN metric_settings[4] ELSE @,
                 !.UseGradientFilter = IF Len(metric_settings) > 4
                                       THEN BoolOfStr(metric_settings[5]) ELSE @,
                 !.ShrinkFactors = shrink_factors,
                 !.SmoothingSigmas = sigmas,
                 !.SmoothingInPhysicalUnits = (stage.levels.smoothingSigmasUnit = "mm")]
        r2 == IF transform_type \in AffineTransformTypes
              THEN [r1 EXCEPT !.AffineMetric = metric_type,
                              !.AffineIterations = iterations]
              ELSE [r1 EXCEPT !.SynMetric = metric_type,
                              !.SynIterations = iterations]
    IN  [r2 EXCEPT
           !.FixedImageMask = IF hasMask(stage.masks.fixed)
                              THEN stage.masks.fixed ELSE @,
           !.MovingImageMask = IF hasMask(stage.masks.moving)
                               THEN stage.masks.moving ELSE @]

\* The two asserts at the top of the loop body.
dimensionsAgree(fixedImage, movingImage, generalSettings) ==
    /\ NdimOf(fixedImage) = NdimOf(movingImage)
    /\ NdimOf(fixedImage) = generalSettings.dimensionality

\* A driver that does not take the engine's result over.
keepInitialTransform(reg, initialTransform) == initialTransform

\* initial_itk_transform for the next stage, after ants_reg.Update().
nextInitialTransform(reg, initialTransform) == reg.ForwardTransform

\* A loop that steps over a stage.
skipStageIndex(index) == index + 2

\* enumerate(stages): the stage after stage_index.
nextStageIndex(index) == index + 1

Event(name) == [event |-> name]

\* A driver that does not yield to the event loop.
noYield(log) == log

\* slicer.app.processEvents(): the pending events of the host are handled.
processEvents(log) == Append(log, Event("pump"))

\* initial_itk_transform before the loop: an AffineTransform set to the
\* identity.  With initialTransformNode among the settings a message is
\* printed, the conversion of the node is commented out; with
\* initializationFeature alone another message is printed.
initialItkTransform(initialTransformSettings) == IdentityTransform

\* process() up to the loop: the images of stage 0 are converted, the
\* identity transform and the engine are built, events are pumped twice.
ProcessInit ==
    /\ pc = "Init"
    /\ LET fixed == parameters.stages[1].metrics[1].fixed
           moving == parameters.stages[1].metrics[1].moving
       IN  IF Len(parameters.stages) > 0 /\ IsVolume(fixed) /\ IsVolume(moving)
           THEN /\ pc' = "PerStage"
                /\ initial_itk_transform' =
                       initialItkTransform(parameters.initialTransformSettings)
                /\ ants_reg' = NewAntsReg
                /\ events' = processEvents(processEvents(events))
           ELSE /\ pc' = "Failed"
                /\ events' = Append(processEvents(events), Event("Failed"))
                /\ UNCHANGED <<initial_itk_transform, ants_reg>>
    /\ stage_index' = 0
    /\ UNCHANGED <<parameters, engineLog, nodes, tempFiles, suspendedRuns, guiVars>>

\* A driver that reads the stage from the store again when the loop reaches
\* it, where the store still has a stage at that place.
stageOfStore(stages, index, paramNode) ==
    IF paramNode.isNone THEN stages[index + 1]
    ELSE IF createProcessParameters(paramNode).raised THEN stages[index + 1]
    ELSE IF index + 1 > Len(createProcessParameters(paramNode).parameters.stages)
    THEN stages[index + 1]
    ELSE createProcessParameters(paramNode).parameters.stages[index + 1]

\* "for stage_index, stage in enumerate(stages)": the stage the loop works on
\* is taken from the list process() was called with; the store (paramNode)
\* is not read.
stageOfRun(stages, index, paramNode) == stages[index + 1]

\* One pass of the loop in which the engine's Update returns: the stage is
\* configured and optimised, its forward transform becomes the next initial
\* transform, events are pumped.
ProcessStage ==
    /\ pc = "PerStage"
    /\ LET stage == stageOfRun(parameters.stages, stage_index, parameterNode)
           fixed == parameters.stages[1].metrics[1].fixed
           moving == parameters.stages[1].metrics[1].moving
           configured == configureStage(ants_reg, stage, fixed, moving,
                                        initial_itk_transform)
       IN  /\ dimensionsAgree(fixed, moving, parameters.generalSettings)
           /\ \E result \in EngineResults :
                LET forward == ForwardOf(stage_index, result)
                    updated == [configured EXCEPT !.ForwardTransform = forward,
                                                  !.InverseTransform = InverseOf(forward),
                                                  !.updated = TRUE]
                IN  /\ ants_reg' = updated
                    /\ engineLog' = Append(engineLog,
                                           [stage |-> stage_index,
                                            config |-> configured,
                                            forward |-> forward])
                    /\ initial_itk_transform' =
                           nextInitialTransform(updated, initial_itk_transform)
    /\ stage_index' = nextStageIndex(stage_index)
    /\ pc' = IF nextStageIndex(stage_index) < Len(parameters.stages)
             THEN "PerStage" ELSE "Finalize"
    /\ events' = processEvents(events \o
                                <<[event |-> "PerStage", stage |-> stage_index],
                                  [event |-> "Update", stage |-> stage_index]>>)
    /\ UNCHANGED <<parameters, nodes, tempFiles, suspendedRuns, guiVars>>

\* A driver that catches what the loop body raises and goes on with the loop.
catchAndContinue(phase) == phase

\* An exception raised in the loop body: process() has no try around it, so
\* the call ends with the exception.
uncaught(phase) == "Failed"

\* One pass of the loop that raises: an assert fails before the engine is
\* called, or the engine's Update raises.  Nothing catches it: the run ends.
ProcessStageFails ==
    /\ pc = "PerStage"
    /\ LET stage == stageOfRun(parameters.stages, stage_index, parameterNode)
           fixed == parameters.stages[1].metrics[1].fixed
           moving == parameters.stages[1].metrics[1].moving
       IN  IF dimensionsAgree(fixed, moving, parameters.generalSettings)
           THEN LET configured == configureStage(ants_reg, stage, fixed, moving,
                                                 initial_itk_transform)
                IN  /\ ants_reg' = configured
                    /\ engineLog' = Append(engineLog,
                                           [stage |-> stage_index,
                                            config |-> configured,
                                            forward |-> UnsetTransform])
                /\ events' = events \o <<[event |-> "PerStage", stage |-> stage_index],
                                         [event |-> "Update", stage |-> stage_index],
                                         Event("Failed")>>
           ELSE /\ ants_reg' = [ants_reg EXCEPT !.FixedImage = fixed,
                                                !.MovingImage = moving,
                                                !.InitialTransform = initial_itk_transform]
                /\ events' = events \o <<[event |-> "PerStage", stage |-> stage_index],
                                         Event("Failed")>>
                /\ UNCHANGED engineLog
    /\ pc' = uncaught(pc)
    /\ UNCHANGED <<parameters, stage_index, initial_itk_transform, nodes, tempFiles,
                   suspendedRuns, guiVars>>

(***************************************************************************)
(* The transform codec: itkTransformFromTransformNode and                  *)
(* transformNodeFromItkTransform.  The calls of the two libraries are      *)
(* opaque: each conversion is given the step at which a library call       *)
(* fails, if any.                                                          *)
(***************************************************************************)
\* The step that fails: none; the temporary file cannot be created; the
\* writer fails after it created the file; the reader fails.
CodecFaults == {"none", "open", "write", "read"}

\* The itk classes of the transforms the codec is given, with the classes
\* isinstance tells apart: an AffineTransform is a MatrixOffsetTransformBase,
\* a TranslationTransform is none of the four.
ItkKinds == {"AffineTransform", "BSplineTransform", "DisplacementFieldTransform",
             "CompositeTransform", "TranslationTransform"}
isinstance(kind, class) ==
    \/ kind = class
    \/ kind = "AffineTransform" /\ class = "MatrixOffsetTransformBase"

\* The MRML class transformNodeFromItkTransform creates for a transform, the
\* first of the four isinstance tests that holds; NoneRef when none holds.
nodeClassOf(kind) ==
    IF isinstance(kind, "MatrixOffsetTransformBase") THEN "vtkMRMLLinearTransformNode"
    ELSE IF isinstance(kind, "BSplineTransform") THEN "vtkMRMLBSplineTransformNode"
    ELSE IF isinstance(kind, "DisplacementFieldTransform") THEN "vtkMRMLGridTransformNode"
    ELSE IF isinstance(kind, "CompositeTransform") THEN "vtkMRMLTransformNode"
    ELSE NoneRef

\* slicer.mrmlScene.AddNode: the IDs the scene gives to the nodes of a class.
NodeIdsOf(class) ==
    CASE class = "vtkMRMLLinearTransformNode" ->
           <<"vtkMRMLLinearTransformNode1", "vtkMRMLLinearTransformNode2",
             "vtkMRMLLinearTransformNode3">>
      [] class = "vtkMRMLBSplineTransformNode" ->
           <<"vtkMRMLBSplineTransformNode1", "vtkMRMLBSplineTransformNode2",
             "vtkMRMLBSplineTransformNode3">>
      [] class = "vtkMRMLGridTransformNode" ->
           <<"vtkMRMLGridTransformNode1", "vtkMRMLGridTransformNode2",
             "vtkMRMLGridTransformNode3">>
      [] OTHER ->
           <<"vtkMRMLTransformNode1", "vtkMRMLTransformNode2",
             "vtkMRMLTransformNode3">>
NewNodeId(scene, class) ==
    NodeIdsOf(class)[CHOOSE k \in 1..3 :
                        /\ NodeIdsOf(class)[k] \notin DOMAIN scene
                        /\ \A j \in 1..(k - 1) : NodeIdsOf(class)[j] \in DOMAIN scene]
AddNode(scene, id) ==
    [n \in DOMAIN scene \cup {id} |-> IF n = id THEN EmptyContent ELSE scene[n]]

\* The MRML class of a node of the scene.
ClassOfNode(id) ==
    IF \E k \in 1..3 : NodeIdsOf("vtkMRMLLinearTransformNode")[k] = id
    THEN "vtkMRMLLinearTransformNode"
    ELSE IF \E k \in 1..3 : NodeIdsOf("vtkMRMLBSplineTransformNode")[k] = id
    THEN "vtkMRMLBSplineTransformNode"
    ELSE IF \E k \in 1..3 : NodeIdsOf("vtkMRMLGridTransformNode")[k] = id
    THEN "vtkMRMLGridTransformNode"
    ELSE IF id = "initNode" THEN "vtkMRMLLinearTransformNode"
    ELSE "vtkMRMLTransformNode"

\* The temporary file a conversion wrote and did not remove.
TempFile(by, step) == [by |-> by, step |-> step]

\* What storageNode.ReadData leaves in a node: the transform of the file.
ContentOfFile(itkTransform) == [origin |-> "file", transform |-> itkTransform]

\* What itk.transformread gives for the file of a node: a list with the
\* node's transform, the identity for a node nothing was read into.
transformread(content) ==
    IF content = EmptyContent
    THEN <<[kind |-> "AffineTransform", parameters |-> "identity"]>>
    ELSE <<content.transform>>

\* The temporary file after a library call raised: os.remove is the
\* statement after the calls, so a file that was created stays.
leftBehind(files, by, step) ==
    IF step = "open" THEN files ELSE Append(files, TempFile(by, step))

\* itkTransformFromTransformNode(transformNode): [outcome, transform, files].
\* WriteData reports a failure by its return value, which is not looked
\* at; transformread raises when the file is missing or cannot be read.
itkTransformFromTransformNode(transformNode, fault, scene, files) ==
    IF ~Truthy(transformNode)
    THEN [outcome |-> "returned", transform |-> NoneRef, files |-> files]
    ELSE IF fault # "none"
    THEN [outcome |-> "raised", transform |-> NoneRef,
          files |-> leftBehind(files, "itkTransformFromTransformNode", fault)]
    ELSE [outcome |-> "returned",
          transform |-> IF Len(transformread(scene[transformNode])) = 1
                        THEN transformread(scene[transformNode])[1]
                        ELSE transformread(scene[transformNode]),
          files |-> files]

\* The rest of transformNodeFromItkTransform, the target node being there.
writeAndRead(itkTransform, target, fault, scene, files) ==
    IF fault # "none"
    THEN [outcome |-> "raised", node |-> NoneRef, scene |-> scene,
          files |-> leftBehind(files, "transformNodeFromItkTransform", fault)]
    ELSE [outcome |-> "returned", node |-> target,
          scene |-> [scene EXCEPT ![target] = ContentOfFile(itkTransform)],
          files |-> files]

\* transformNodeFromItkTransform(itkTransform, transformNode):
\* [outcome, node, scene, files].  Given a node, the isinstance tests are
\* skipped.
transformNodeFromItkTransform(itkTransform, transformNode, fault, scene, files) ==
    IF Truthy(transformNode)
    THEN writeAndRead(itkTransform, transformNode, fault, scene, files)
    ELSE IF nodeClassOf(itkTransform.kind) = NoneRef
    THEN [outcome |-> "ValueError", node |-> NoneRef, scene |-> scene, files |-> files]
    ELSE writeAndRead(itkTransform,
                      NewNodeId(scene, nodeClassOf(itkTransform.kind)), fault,
                      AddNode(scene, NewNodeId(scene, nodeClassOf(itkTransform.kind))),
                      files)

\* One output of process(): converted when its node is given and nothing
\* has raised before.
convertOutput(itkTransform, ref, fault, r) ==
    IF r.outcome = "returned" /\ ref # NoneRef
    THEN transformNodeFromItkTransform(itkTransform, ref, fault, r.scene, r.files)
    ELSE r

\* A driver that writes the warped image whether or not a volume is given.
warpAnyway(scene, ref, reg) ==
    [scene EXCEPT !["outVolume"] = [origin |-> "warped", by |-> reg.ForwardTransform]]

\* slicer.util.updateVolumeFromITKImage with the warped moving image.
updateVolume(scene, ref, reg) ==
    IF ref # NoneRef
    THEN [scene EXCEPT ![ref] = [origin |-> "warped", by |-> reg.ForwardTransform]]
    ELSE scene

\* The outputs process() has started to write, in the order of the code:
\* each one whose node is given, up to the first conversion that raised.
outputWrites(out, forward, inverse) ==
    (IF out.forwardTransform # NoneRef
     THEN <<[event |-> "write", output |-> "forwardTransform"]>> ELSE <<>>)
    \o (IF forward.outcome = "returned" /\ out.inverseTransform # NoneRef
        THEN <<[event |-> "write", output |-> "inverseTransform"]>> ELSE <<>>)
    \o (IF inverse.outcome = "returned" /\ out.volume # NoneRef
        THEN <<[event |-> "write", output |-> "volume"]>> ELSE <<>>)

\* After the loop: the engine's transforms are read, events are pumped, and
\* every output whose node is given is written, the forward transform
\* first.  A conversion that raises ends the call.
ProcessFinalize ==
    /\ pc = "Finalize"
    /\ \E faultForward \in CodecFaults, faultInverse \in CodecFaults :
          LET out == parameters.outputSettings
              forward == convertOutput(ants_reg.ForwardTransform, out.forwardTransform,
                                       faultForward,
                                       [outcome |-> "returned", node |-> NoneRef,
                                        scene |-> nodes, files |-> tempFiles])
              r == convertOutput(ants_reg.InverseTransform, out.inverseTransform,
                                 faultInverse, forward)
          IN  /\ tempFiles' = r.files
              /\ nodes' = IF r.outcome = "returned"
                          THEN updateVolume(r.scene, out.volume, ants_reg)
                          ELSE r.scene
              /\ pc' = IF r.outcome = "returned" THEN "Done" ELSE uncaught(pc)
              /\ events' = Append(processEvents(Append(events, Event("Finalize")))
                                      \o outputWrites(out, forward, r),
                                  IF r.outcome = "returned"
                                  THEN Event("Done") ELSE Event("Failed"))
    /\ UNCHANGED <<parameters, stage_index, initial_itk_transform, ants_reg,
                   engineLog, suspendedRuns, guiVars>>

(***************************************************************************)
(* Specifications.                                                         *)
(***************************************************************************)
\* No run: the driver's state while the widget is used.
RunIdle ==
    /\ parameters = [none |-> TRUE]
    /\ pc = "Idle"
    /\ stage_index = 0
    /\ initial_itk_transform = UnsetTransform
    /\ ants_reg = NewAntsReg
    /\ engineLog = <<>>
    /\ events = <<>>
    /\ nodes = [id \in OutputNodeIds |-> EmptyContent]
    /\ tempFiles = <<>>
    /\ suspendedRuns = <<>>

\* The widget after setup(): initializeParameterNode gives it a store.
Init ==
    LET r == setParameterNode(EmptyParameterNode, InitialUi, FALSE)
    IN  /\ presetFiles = BundledPresets
        /\ parameterNode = r.node
        /\ ui = r.ui
        /\ updatingGUIFromParameterNode = r.updating
        /\ lastOp = Record("setup", NoInput, Setup(r.node), r)
        /\ opCount = 0
        /\ RunIdle

Next ==
    \/ SelectFixedImage
    \/ SelectMovingImage
    \/ EditStageTransform
    \/ AddStageRow
    \/ EditMetrics
    \/ EditLevels
    \/ EditMasks
    \/ ToggleLink
    \/ SelectStageRow
    \/ RemoveStage
    \/ SelectPreset
    \/ SavePreset
    \/ SelectOutputVolume

\* The widget: every behaviour of the handlers from the state after setup.
Spec == Init /\ [][Next]_vars

\* The pipelines process() is called with: 1..MaxRunStages stages, each a
\* preset stage bound to the run's images, with or without a fixed mask;
\* the linear stages of a pipeline have one of the linear transform types.
RunStageKinds == {"Linear", "SyN", "LinearMasked", "LinearMasked2d"}
RunLinearTypes == {"Rigid", "Affine", "CompositeAffine", "Similarity", "Translation"}
RunStage(kind, fixed, moving, linear) ==
    CASE kind = "Linear" ->
           [RigidPresetStage EXCEPT !.transformParameters.transform = linear,
                                    !.metrics[1].fixed = fixed,
                                    !.metrics[1].moving = moving]
      [] kind = "SyN" ->
           [SyNPresetStage EXCEPT !.metrics[1].fixed = fixed,
                                  !.metrics[1].moving = moving]
      [] kind = "LinearMasked" ->
           [RigidPresetStage EXCEPT !.transformParameters.transform = linear,
                                    !.metrics[1].fixed = fixed,
                                    !.metrics[1].moving = moving,
                                    !.masks = [fixed |-> "mask1", moving |-> EmptyRef]]
      [] OTHER ->
           [RigidPresetStage EXCEPT !.transformParameters.transform = linear,
                                    !.metrics[1].fixed = fixed,
                                    !.metrics[1].moving = moving,
                                    !.masks = [fixed |-> "mask2d", moving |-> EmptyRef]]
RunImages == {<<"vol1", "vol2">>, <<"slice2d", "vol2">>, <<EmptyRef, "vol2">>}
RunInitialTransforms == {NoneRef, "initNode"}
RunOutputSettings ==
    {[forwardTransform |-> "fwdNode", inverseTransform |-> "invNode",
      volume |-> "outVolume", interpolation |-> "Linear", useDisplacementField |-> 0],
     [forwardTransform |-> "fwdNode", inverseTransform |-> NoneRef,
      volume |-> NoneRef, interpolation |-> "Linear", useDisplacementField |-> 0],
     [forwardTransform |-> NoneRef, inverseTransform |-> NoneRef,
      volume |-> NoneRef, interpolation |-> "Linear", useDisplacementField |-> 0]}
\* The settings of a run: every choice of images, outputs and initial
\* transform with Rigid as the linear type, and the other linear types on
\* the 3D pair with no initial transform.
RunSettings ==
    {choice \in [images : RunImages, out : RunOutputSettings,
                 initial : RunInitialTransforms, linear : RunLinearTypes] :
        \/ choice.linear = "Rigid"
        \/ choice.images = <<"vol1", "vol2">> /\ choice.initial = NoneRef}
RunParameters ==
    {[stages |-> [i \in DOMAIN kinds |->
                    RunStage(kinds[i], choice.images[1], choice.images[2], choice.linear)],
      outputSettings |-> choice.out,
      initialTransformSettings |->
          [initializationFeature |-> 0, initialTransformNode |-> choice.initial],
      generalSettings |-> [dimensionality |-> 3, histogramMatching |-> 0,
                           winsorizeImageIntensities |-> <<5, 995>>,
                           computationPrecision |-> "float"]] :
        kinds \in UNION {[1..n -> RunStageKinds] : n \in 1..MaxRunStages},
        choice \in RunSettings}

\* process() has just been called.
InitRun ==
    /\ LET r == setParameterNode(EmptyParameterNode, InitialUi, FALSE)
       IN  /\ presetFiles = BundledPresets
           /\ parameterNode = r.node
           /\ ui = r.ui
           /\ updatingGUIFromParameterNode = r.updating
           /\ lastOp = Record("setup", NoInput, Setup(r.node), r)
           /\ opCount = 0
    /\ parameters \in RunParameters
    /\ pc = "Init"
    /\ stage_index = 0
    /\ initial_itk_transform = UnsetTransform
    /\ ants_reg = NewAntsReg
    /\ engineLog = <<>>
    /\ events = <<Event("Init")>>
    /\ nodes = [id \in OutputNodeIds |-> EmptyContent]
    /\ tempFiles = <<>>
    /\ suspendedRuns = <<>>

NextRun ==
    \/ ProcessInit
    \/ ProcessStage
    \/ ProcessStageFails
    \/ ProcessFinalize

\* The driver: every run of process() on the pipelines of RunParameters.
SpecRun == InitRun /\ [][NextRun]_vars

(***************************************************************************)
(* setDefaultParameters on the stores a scene can hold: every key either   *)
(* unset or set to a value that is not the default one.                    *)
(***************************************************************************)
StoredStagesChoices ==
    {<<>>,
     JsonDumps(<<[SyNPresetStage EXCEPT !.metrics[1].fixed = "vol1",
                                        !.metrics[1].moving = "vol2"]>>)}
StoredStores ==
    {[EmptyParameterNode EXCEPT
        !.hasStagesJson = hasStages,
        !.StagesJson = IF hasStages THEN stages ELSE <<>>,
        !.CurrentStage = currentStage,
        !.OutputVolume = volume,
        !.OutputInterpolation = interpolation,
        !.initializationFeature = feature,
        !.Dimensionality = dimensionality,
        !.WinsorizeImageIntensities = winsorize,
        !.ComputationPrecision = precision] :
        hasStages \in BOOLEAN, stages \in StoredStagesChoices,
        currentStage \in {"", "1"}, volume \in {EmptyRef, "outVolume"},
        interpolation \in {"", "BSpline"}, feature \in {"", "-1"},
        dimensionality \in {"", "2"},
        winsorize \in {<<>>, <<"0.0", "1.0">>},
        precision \in {"", "double"}}

InitDefaults ==
    /\ presetFiles = BundledPresets
    /\ parameterNode \in StoredStores
    /\ ui = InitialUi
    /\ updatingGUIFromParameterNode = FALSE
    /\ lastOp = [op |-> "scene", outcome |-> "done", refresh |-> "none",
                 input |-> NoInput, seen |-> <<>>, reentrant |-> <<>>]
    /\ opCount = 0
    /\ RunIdle

\* logic.setDefaultParameters(parameterNode), as setParameterNode calls it
\* each time the module is entered.
ApplyDefaults ==
    /\ opCount < MaxOps
    /\ opCount' = opCount + 1
    /\ parameterNode' = setDefaultParameters(parameterNode)
    /\ lastOp' = [op |-> "setDefaultParameters", outcome |-> "done",
                  refresh |-> "none", input |-> [store |-> parameterNode],
                  seen |-> <<>>, reentrant |-> <<>>]
    /\ UNCHANGED <<ui, updatingGUIFromParameterNode, presetFiles, runVars>>

NextDefaults == ApplyDefaults

\* The defaults: every application of setDefaultParameters to StoredStores.
SpecDefaults == InitDefaults /\ [][NextDefaults]_vars

(***************************************************************************)
(* Properties of the driver (checked under SpecRun).                       *)
(***************************************************************************)
\* C1: in a run, the initial transform the engine is given for a stage after
\* stage 0 is the forward transform the engine produced for the stage before
\* it, and is never the identity transform.
StagesAreChained ==
    \A k \in DOMAIN engineLog :
        engineLog[k].stage > 0 =>
            /\ k > 1
            /\ engineLog[k - 1].stage = engineLog[k].stage - 1
            /\ engineLog[k].config.InitialTransform = engineLog[k - 1].forward
            /\ engineLog[k].config.InitialTransform # IdentityTransform

\* The engine has been invoked for a second stage.
SecondStageStarted ==
    /\ Len(parameters.stages) >= 2
    /\ Len(engineLog) >= 2
    /\ engineLog[2].stage = 1

IsPhase(e) == e.event \in {"Init", "PerStage", "Finalize", "Done", "Failed"}
IsUpdate(e) == e.event = "Update"
PhaseOfStage(i) == [event |-> "PerStage", stage |-> i]
UpdateOfStage(i) == [event |-> "Update", stage |-> i]

\* C2: a run that has not failed has gone through Init and then the stages
\* 0, 1, ... in pipeline order, each with exactly one Update of the engine;
\* it ends with Finalize and Done after all n stages and n Updates.
RunIsInOrder ==
    pc # "Failed" =>
        LET n == Len(parameters.stages)
            done == IF pc \in {"Finalize", "Done"} THEN n ELSE stage_index
            tail == IF pc = "Done" THEN <<Event("Finalize"), Event("Done")>> ELSE <<>>
        IN  /\ SelectSeq(events, IsPhase) =
                   <<Event("Init")>> \o [i \in 1..done |-> PhaseOfStage(i - 1)] \o tail
            /\ SelectSeq(events, IsUpdate) = [i \in 1..done |-> UpdateOfStage(i - 1)]
            /\ Len(engineLog) = done
            /\ \A k \in DOMAIN engineLog : engineLog[k].stage = k - 1

\* A run over the longest pipeline has ended.
LongRunDone ==
    /\ pc = "Done"
    /\ Len(parameters.stages) = MaxRunStages
    /\ Len(engineLog) = MaxRunStages

(***************************************************************************)
(* Properties of the widget (checked under Spec).                          *)
(***************************************************************************)
\* json.loads(parameterNode.GetParameter(STAGES_JSON_PARAM))
StoredStages == JsonLoads(parameterNode.StagesJson)
StoredCurrentStage == IntOfStr(parameterNode.CurrentStage)

\* The handler that ran last, and that it passed its guard.
Ran(op) == lastOp.op = op /\ lastOp.outcome # "dropped"
Wrote(op) == lastOp.op = op /\ lastOp.outcome = "done"

\* C3: after the fixed or moving image selection changed, metrics[0].fixed
\* and metrics[0].moving of every stored stage are the selected references.
ImagesWrittenToEveryStage ==
    Ran("updateStagesFromFixedMovingNodes") =>
        \A i \in DOMAIN StoredStages :
            /\ "metrics" \in DOMAIN StoredStages[i]
            /\ StoredStages[i].metrics[1].fixed = lastOp.input.fixed
            /\ StoredStages[i].metrics[1].moving = lastOp.input.moving

\* C4: after an edit with a field's link flag set, every stored stage holds
\* the written value in that field.
LinkedFieldWrittenToEveryStage ==
    Wrote("updateStagesParameterFromGUI") =>
        \A field \in LinkFields :
            lastOp.input.links[field] =>
                \A i \in DOMAIN StoredStages :
                    /\ field \in DOMAIN StoredStages[i]
                    /\ StoredStages[i][field] = lastOp.input.written[field]

\* A linked field was edited on a pipeline of several stages, away from
\* its first stage.
LinkedEditOfSeveralStages ==
    /\ Wrote("updateStagesParameterFromGUI")
    /\ lastOp.input.trigger \in LinkFields
    /\ lastOp.input.links[lastOp.input.trigger]
    /\ Len(StoredStages) >= 2
    /\ StoredCurrentStage > 0

\* A field of a stage, <<>> when the stage has no such key.
FieldOf(stage, field) == IF field \in DOMAIN stage THEN <<stage[field]>> ELSE <<>>

\* C5: an edit with a field's link flag clear changes that field in no
\* stage but the current one, and an edit of metrics, levels, masks or a
\* link button changes no stage's transform and not the number of stages.
UnlinkedEditIsLocal ==
    [][(lastOp'.op = "updateStagesParameterFromGUI" /\ lastOp'.outcome = "done") =>
          LET old == JsonLoads(parameterNode.StagesJson)
              new == JsonLoads(parameterNode'.StagesJson)
              cur == PyIndex(old, IntOfStr(parameterNode.CurrentStage))
          IN  /\ \A field \in LinkFields :
                    ~lastOp'.input.links[field] =>
                        \A i \in (DOMAIN old) \ {cur} :
                            FieldOf(new[i], field) = FieldOf(old[i], field)
              /\ lastOp'.input.trigger \in (LinkFields \cup {"link"}) =>
                    /\ Len(new) = Len(old)
                    /\ \A i \in DOMAIN old :
                          new[i].transformParameters = old[i].transformParameters
    ]_vars

\* An unlinked field was edited while another stage holds another value of
\* it.
UnlinkedEditBesideOtherStage ==
    /\ Wrote("updateStagesParameterFromGUI")
    /\ lastOp.input.trigger \in LinkFields
    /\ ~lastOp.input.links[lastOp.input.trigger]
    /\ \E i \in DOMAIN StoredStages :
          /\ i # StoredCurrentStage + 1
          /\ lastOp.input.trigger \in DOMAIN StoredStages[i]
          /\ StoredStages[i][lastOp.input.trigger] #
                 lastOp.input.written[lastOp.input.trigger]
          /\ StoredStages[StoredCurrentStage + 1][lastOp.input.trigger] =
                 lastOp.input.written[lastOp.input.trigger]

\* C6: a remove on a pipeline of one stage leaves the stored stages and the
\* current stage as they are, and no step leaves the store without a stage.
RemoveKeepsLastStage ==
    [][/\ (/\ lastOp'.op = "onRemoveStageButtonClicked"
           /\ Len(JsonLoads(parameterNode.StagesJson)) = 1) =>
              /\ parameterNode'.StagesJson = parameterNode.StagesJson
              /\ parameterNode'.CurrentStage = parameterNode.CurrentStage
       /\ Len(JsonLoads(parameterNode'.StagesJson)) >= 1
    ]_vars

\* Remove was clicked on a pipeline of one stage.
RemoveClickedOnOneStage ==
    /\ lastOp.op = "onRemoveStageButtonClicked"
    /\ lastOp.input.count = 1
    /\ Len(StoredStages) = 1

\* C7: a remove on a pipeline of one stage ends with an error that is
\* raised to the user, not with a silent return.
RemoveOfLastStageSignalsFailure ==
    (lastOp.op = "onRemoveStageButtonClicked" /\ lastOp.input.count = 1) =>
        lastOp.outcome = "raised"

Min(a, b) == IF a < b THEN a ELSE b

\* C8 as stated: after a remove that took a stage away, the current stage
\* is min(previous current stage, new number of stages - 1).
CurrentStageClampedAfterRemove ==
    Wrote("onRemoveStageButtonClicked") =>
        StoredCurrentStage =
            Min(IntOfStr(lastOp.input.currentStage), Len(StoredStages) - 1)

\* C8 as amended: after a remove that took a stage away, the current stage
\* is the one before the previous current stage, 0 when there is none; it is
\* an index of the new list.
CurrentStageMovesBackAfterRemove ==
    Wrote("onRemoveStageButtonClicked") =>
        LET previous == IntOfStr(lastOp.input.currentStage)
        IN  /\ previous >= 1 => StoredCurrentStage = previous - 1
            /\ previous = 0 => StoredCurrentStage = 0
            /\ StoredCurrentStage \in 0..(Len(StoredStages) - 1)

\* The middle stage of three was removed.
MiddleStageRemoved ==
    /\ Wrote("onRemoveStageButtonClicked")
    /\ lastOp.input.currentStage = "1"
    /\ lastOp.input.count = 3

\* C9: a remove that takes a stage away takes exactly the stage at the
\* current stage index; the other stages stay as they were, in their order.
RemoveTakesTheCurrentStage ==
    [][(lastOp'.op = "onRemoveStageButtonClicked" /\ lastOp'.outcome = "done") =>
          LET old == JsonLoads(parameterNode.StagesJson)
              new == JsonLoads(parameterNode'.StagesJson)
              p == PyIndex(old, IntOfStr(parameterNode.CurrentStage))
          IN  /\ Len(old) >= 2
              /\ p \in DOMAIN old
              /\ Len(new) = Len(old) - 1
              /\ \A i \in DOMAIN new : new[i] = old[IF i < p THEN i ELSE i + 1]
    ]_vars

\* Index 1 of the three stages of a preset was removed: stages 0 and 2 are
\* left.
PresetStagesZeroAndTwoLeft ==
    /\ Wrote("onRemoveStageButtonClicked")
    /\ lastOp.input.currentStage = "1"
    /\ Len(StoredStages) = 2
    /\ StoredStages[1].transformParameters = RigidTransform
    /\ StoredStages[2].transformParameters = SyNTransform

\* C10: after a preset was loaded, the stored stages are the preset's
\* stages, each with the selected images in metrics[0], and nothing else;
\* the current stage is 0.
PresetReplacesStages ==
    Wrote("onPresetSelected") =>
        LET presetStages == getPresetParametersByName(lastOp.input.presetName).stages
        IN  /\ Len(StoredStages) = Len(presetStages)
            /\ \A i \in DOMAIN StoredStages :
                  /\ DOMAIN StoredStages[i] = DOMAIN presetStages[i]
                  /\ StoredStages[i].transformParameters =
                         presetStages[i].transformParameters
                  /\ StoredStages[i].levels = presetStages[i].levels
                  /\ StoredStages[i].masks = presetStages[i].masks
                  /\ Len(StoredStages[i].metrics) = Len(presetStages[i].metrics)
                  /\ StoredStages[i].metrics[1].type = presetStages[i].metrics[1].type
                  /\ StoredStages[i].metrics[1].settings =
                         presetStages[i].metrics[1].settings
                  /\ StoredStages[i].metrics[1].fixed = lastOp.input.images.fixed
                  /\ StoredStages[i].metrics[1].moving = lastOp.input.images.moving
            /\ parameterNode.CurrentStage = "0"

\* The preset of three stages was loaded with a fixed image selected.
PresetLoadedWithImage ==
    /\ Wrote("onPresetSelected")
    /\ lastOp.input.presetName = "QuickSyN"
    /\ lastOp.input.images.fixed = "vol1"
    /\ Len(StoredStages) = 3

\* C11: after a row was added below the last one, the stage appended to the
\* stored list is complete: it has transform parameters, a non-empty
\* metrics list, levels and masks.
AppendedStageIsComplete ==
    (Wrote("updateStagesParameterFromGUI") /\ lastOp.input.trigger = "addRow") =>
        /\ DOMAIN StoredStages[Len(StoredStages)] =
               {"transformParameters", "metrics", "levels", "masks"}
        /\ Len(StoredStages[Len(StoredStages)].metrics) > 0

\* C12: all stored stages have the same metrics[0].fixed and the same
\* metrics[0].moving reference.
StagesShareImages ==
    \A i, j \in DOMAIN StoredStages :
        /\ "metrics" \in DOMAIN StoredStages[i]
        /\ Len(StoredStages[i].metrics) > 0
        /\ "metrics" \in DOMAIN StoredStages[j]
        /\ Len(StoredStages[j].metrics) > 0
        /\ StoredStages[i].metrics[1].fixed = StoredStages[j].metrics[1].fixed
        /\ StoredStages[i].metrics[1].moving = StoredStages[j].metrics[1].moving

\* int(GetParameter(CURRENT_STAGE_PARAM)) is an index of the stages list.
CurrentStageIsValid(node) ==
    /\ IsIntStr(node.CurrentStage)
    /\ 0 <= IntOfStr(node.CurrentStage)
    /\ IntOfStr(node.CurrentStage) < Len(JsonLoads(node.StagesJson))

ParameterKeys ==
    {"CurrentStage", "OutputInterpolation", "OutputDisplacementField",
     "initializationFeature", "Dimensionality", "HistogramMatching",
     "WinsorizeImageIntensities", "ComputationPrecision"}
ReferenceKeys ==
    {"OutputForwardTransform", "OutputInverseTransform", "OutputVolume",
     "InitialTransform"}
Holds(node, key) ==
    IF key = "WinsorizeImageIntensities" THEN Len(node[key]) > 0
    ELSE node[key] \notin {""}

\* The values of the Rigid preset file, as the store holds them.
RigidValue(key) ==
    CASE key = "CurrentStage" -> "0"
      [] key = "OutputInterpolation" -> "Linear"
      [] key = "OutputDisplacementField" -> "0"
      [] key = "initializationFeature" -> "0"
      [] key = "Dimensionality" -> "3"
      [] key = "HistogramMatching" -> "0"
      [] key = "WinsorizeImageIntensities" -> <<"0.005", "0.995">>
      [] OTHER -> "float"

\* C14: setDefaultParameters leaves every key that holds a value as it is,
\* gives every other key the value of the Rigid preset (the stages: the
\* preset's one stage), and applied again it changes nothing.
DefaultsFillAbsentKeysOnly ==
    [][/\ \A key \in ParameterKeys :
             parameterNode'[key] = IF Holds(parameterNode, key)
                                   THEN parameterNode[key] ELSE RigidValue(key)
       /\ \A key \in ReferenceKeys : parameterNode'[key] = parameterNode[key]
       /\ parameterNode'.hasStagesJson
       /\ parameterNode'.StagesJson =
              IF parameterNode.hasStagesJson THEN parameterNode.StagesJson
              ELSE JsonDumps(<<RigidPresetStage>>)
       /\ lastOp.op = "setDefaultParameters" => parameterNode' = parameterNode]_vars

\* The defaults were applied twice to a store that held a dimensionality
\* and an output volume and no precision and no current stage.
DefaultsAppliedTwice ==
    /\ opCount = 2
    /\ lastOp.op = "setDefaultParameters"
    /\ lastOp.input.store = parameterNode
    /\ parameterNode.Dimensionality = "2"
    /\ parameterNode.OutputVolume = "outVolume"
    /\ parameterNode.ComputationPrecision = "float"
    /\ parameterNode.CurrentStage = "0"

\* The handlers that write several keys inside StartModify/EndModify.
BatchHandlers ==
    {"updateParameterNodeFromGUI", "onRemoveStageButtonClicked", "onPresetSelected"}

\* C15: every store the observer is called with for a write of a batch
\* handler is the store after the handler's last write: it never holds a
\* part of the batch only.
BatchIsSeenWhole ==
    (lastOp.op \in BatchHandlers /\ lastOp.outcome = "done") =>
        \A k \in DOMAIN lastOp.seen : lastOp.seen[k] = parameterNode

\* A remove changed the stages list and the current stage, and the observer
\* was called.
RemoveChangedListAndCurrentStage ==
    /\ Wrote("onRemoveStageButtonClicked")
    /\ lastOp.input.currentStage # parameterNode.CurrentStage
    /\ lastOp.input.count = Len(StoredStages) + 1
    /\ Len(lastOp.seen) > 0

\* The handlers that write the pipeline to the store.
WriteHandlers ==
    {"updateParameterNodeFromGUI", "updateStagesParameterFromGUI",
     "onRemoveStageButtonClicked", "onPresetSelected"}

RefreshWritesNothing ==
    [][/\ \A k \in DOMAIN lastOp'.reentrant : lastOp'.reentrant[k] = "dropped"
       /\ lastOp'.seen # <<>> => parameterNode' = lastOp'.seen[Len(lastOp'.seen)]
       /\ (updatingGUIFromParameterNode /\ lastOp'.seen # <<>>) =>
              (lastOp'.refresh = "returned" /\ ui' = ui)]_vars

\* A preset load was followed by a refresh that changed the image, stage
\* and settings widgets: their handlers were called during the refresh.
RefreshSignalledHandlers ==
    /\ Wrote("onPresetSelected")
    /\ lastOp.refresh = "completed"
    /\ Len(lastOp.reentrant) >= 2

\* Two references are the same: the same node, or both no node (None, "").
SameReference(a, b) == (Truthy(a) \/ Truthy(b)) => a = b
SameMetrics(read, written) ==
    /\ Len(read) = Len(written)
    /\ \A k \in DOMAIN read :
          /\ read[k].type = written[k].type
          /\ read[k].settings = written[k].settings
          /\ SameReference(read[k].fixed, written[k].fixed)
          /\ SameReference(read[k].moving, written[k].moving)

\* The settings createProcessParameters gives are the ones written.
SettingsReadBack(read, written) ==
    /\ SameReference(read.outputSettings.forwardTransform, written.outputForwardTransform)
    /\ SameReference(read.outputSettings.inverseTransform, written.outputInverseTransform)
    /\ SameReference(read.outputSettings.volume, written.outputVolume)
    /\ read.outputSettings.interpolation = written.outputInterpolation
    /\ (read.outputSettings.useDisplacementField = 1) = written.outputDisplacementField
    /\ read.initialTransformSettings.initializationFeature =
           written.initialTransformTypeIndex - 2
    /\ SameReference(read.initialTransformSettings.initialTransformNode,
                     written.initialTransformNode)
    /\ read.generalSettings.dimensionality = written.dimensionality
    /\ (read.generalSettings.histogramMatching = 1) = written.histogramMatching
    /\ read.generalSettings.winsorizeImageIntensities = written.winsorize
    /\ read.generalSettings.computationPrecision = written.computationPrecision

\* The current stage createProcessParameters gives is the one written.
StageReadBack(read, written) ==
    /\ SameMetrics(read.metrics, written.metrics)
    /\ read.levels = written.levels
    /\ SameReference(read.masks.fixed, written.masks.fixed)
    /\ SameReference(read.masks.moving, written.masks.moving)

\* C18: after a handler wrote the pipeline, createProcessParameters gives
\* the pipeline back: the settings updateParameterNodeFromGUI wrote, and in
\* the current stage the metrics, levels and masks
\* updateStagesParameterFromGUI wrote.
StoreReadsBack ==
    (lastOp.op \in WriteHandlers /\ lastOp.outcome = "done") =>
        /\ ~createProcessParameters(parameterNode).raised
        /\ Wrote("updateParameterNodeFromGUI") =>
              SettingsReadBack(createProcessParameters(parameterNode).parameters,
                               lastOp.input)
        /\ Wrote("updateStagesParameterFromGUI") =>
              StageReadBack(
                  createProcessParameters(parameterNode).parameters.stages[
                      StoredCurrentStage + 1],
                  lastOp.input.written)

\* A preset was saved from the stored pipeline just now.
PresetSaved == lastOp.op = "onSavePresetPushButton" /\ lastOp.outcome = "done"

\* The stages onPresetSelected stores when the preset shown in the selector
\* is loaded with the images of the stored pipeline selected.
LoadedBack ==
    JsonLoads(onPresetSelected(
                  parameterNode,
                  [ui EXCEPT
                     !.fixedImageNode = setCurrentNodeID(StoredStages[1].metrics[1].fixed),
                     !.movingImageNode = setCurrentNodeID(StoredStages[1].metrics[1].moving)],
                  FALSE, ui.presetText).node.StagesJson)

\* The loaded stage is the original one in its transform, metrics (with the
\* images) and levels.
SameStageShape(loaded, original) ==
    /\ loaded.transformParameters = original.transformParameters
    /\ SameMetrics(loaded.metrics, original.metrics)
    /\ FieldOf(loaded, "levels") = FieldOf(original, "levels")

\* C19 as stated: a preset saved from the stored pipeline and loaded with
\* the same images gives the pipeline back in every field, the masks
\* included.
PresetLoadsBackWithMasks ==
    PresetSaved =>
        /\ Len(LoadedBack) = Len(StoredStages)
        /\ \A i \in DOMAIN StoredStages :
              /\ SameStageShape(LoadedBack[i], StoredStages[i])
              /\ SameReference(LoadedBack[i].masks.fixed, StoredStages[i].masks.fixed)
              /\ SameReference(LoadedBack[i].masks.moving, StoredStages[i].masks.moving)

\* C19: a preset saved from the stored pipeline and loaded with the same
\* images gives the pipeline back in every field but the masks, which come
\* back unset.
PresetLoadsBackWithoutMasks ==
    PresetSaved =>
        /\ Len(LoadedBack) = Len(StoredStages)
        /\ \A i \in DOMAIN StoredStages :
              /\ SameStageShape(LoadedBack[i], StoredStages[i])
              /\ LoadedBack[i].masks = NoMasks

\* A preset was saved from a pipeline of three stages with an image and a
\* mask bound.
MaskedPipelineSaved ==
    /\ PresetSaved
    /\ Len(StoredStages) = 3
    /\ StoredStages[1].metrics[1].fixed = "vol1"
    /\ \E i \in DOMAIN StoredStages : StoredStages[i].masks.fixed = "mask1"

\* C20: in every preset file written by a save, fixed and moving of every
\* metric and of the masks of every stage are null.
SavedPresetsHoldNoReferences ==
    \A name \in PresetNames \ BundledPresetNames :
        \A i \in DOMAIN presetFiles[name].stages :
            /\ presetFiles[name].stages[i].masks.fixed = JsonNull
            /\ presetFiles[name].stages[i].masks.moving = JsonNull
            /\ \A k \in DOMAIN presetFiles[name].stages[i].metrics :
                  /\ presetFiles[name].stages[i].metrics[k].fixed = JsonNull
                  /\ presetFiles[name].stages[i].metrics[k].moving = JsonNull

\* A preset was saved while the first stage had an image and a mask bound.
PresetSavedWithBoundReferences ==
    /\ PresetSaved
    /\ ui.presetText \in PresetNames \ BundledPresetNames
    /\ StoredStages[1].metrics[1].fixed = "vol1"
    /\ StoredStages[1].masks.fixed = "mask1"

(***************************************************************************)
(* The preset store on its own: PresetManager.saveStagesAsPreset called    *)
(* with a stage list, the dialog answered with any name, the empty one     *)
(* included.                                                               *)
(***************************************************************************)
StoreNames == SaveNames \cup DotNames \cup {"other"}
StoreStages == {<<RigidPresetStage>>, <<SyNPresetStage>>,
                <<RigidPresetStage, AffinePresetStage>>}

InitPresets == Init

\* PresetManager.saveStagesAsPreset(stages)
SaveStages ==
    \E stages \in StoreStages :
        \E answers \in Dialogs(StoreNames, presetFiles) :
            \E writable \in (IF answers[Len(answers)].ok THEN BOOLEAN ELSE {TRUE}) :
                LET saved == saveStagesAsPreset(presetFiles, stages, answers, writable)
                IN  /\ presetFiles' = saved.files
                    /\ lastOp' = [op |-> "saveStagesAsPreset", outcome |-> saved.name,
                                  refresh |-> "none",
                                  input |-> [answers |-> answers, writable |-> writable,
                                             stages |-> stages],
                                  seen |-> <<>>, reentrant |-> <<>>]
                    /\ UNCHANGED <<parameterNode, ui, updatingGUIFromParameterNode,
                                   opCount, runVars>>

NextPresets == SaveStages

\* The preset store: every sequence of saves on the bundled presets.
SpecPresets == InitPresets /\ [][NextPresets]_vars

\* C21: a save never overwrites or alters a preset file that exists: every
\* file keeps its text, and the save ends with one file of a new name
\* written or with nothing written.
SaveKeepsExistingPresets ==
    [][/\ \A name \in DOMAIN presetFiles :
            /\ name \in DOMAIN presetFiles'
            /\ presetFiles'[name] = presetFiles[name]
       /\ Cardinality(DOMAIN presetFiles') \in
              {Cardinality(DOMAIN presetFiles), Cardinality(DOMAIN presetFiles) + 1}]_vars

\* The images and masks a run is given: the pair of stage 0 and the masks
\* of every stage.
RunVolumes ==
    {volume \in {parameters.stages[1].metrics[1].fixed,
                 parameters.stages[1].metrics[1].moving}
                \cup {parameters.stages[i].masks.fixed : i \in DOMAIN parameters.stages}
                \cup {parameters.stages[i].masks.moving : i \in DOMAIN parameters.stages} :
        IsVolume(volume)}

\* C22: when an image or a mask of the run has another dimension than the
\* declared dimensionality, the engine's optimisation is never called, no
\* output node is written and the run does not reach its end.
DimensionMismatchStopsRun ==
    (\E volume \in RunVolumes :
        NdimOf(volume) # parameters.generalSettings.dimensionality)
    => /\ engineLog = <<>>
       /\ nodes = [id \in OutputNodeIds |-> EmptyContent]
       /\ pc \notin {"Finalize", "Done"}

\* C23: a run whose output settings name no forward transform, no inverse
\* transform and no volume is rejected before the engine's optimisation is
\* called.
RunWithoutOutputsIsRejected ==
    (/\ parameters.outputSettings.forwardTransform = NoneRef
     /\ parameters.outputSettings.inverseTransform = NoneRef
     /\ parameters.outputSettings.volume = NoneRef)
    => /\ engineLog = <<>>
       /\ pc \notin {"Finalize", "Done"}

\* The engine's Update raised in the k-th call.
UpdateFailed(k) == engineLog[k].forward = UnsetTransform

\* C24: when the engine fails in the optimisation of stage i, the run is
\* Failed and stays so: the failed call is the last call of the engine and
\* the only one for stage i, no later stage is configured (the engine holds
\* what stage i set), and the one Failed event is the last event.
EngineFailureEndsRun ==
    \A k \in DOMAIN engineLog :
        UpdateFailed(k) =>
            /\ pc = "Failed"
            /\ k = Len(engineLog)
            /\ ants_reg = engineLog[k].config
            /\ \A e \in DOMAIN events :
                  events[e].event \in {"PerStage", "Update"}
                      => events[e].stage <= engineLog[k].stage
            /\ Cardinality({e \in DOMAIN events :
                               events[e] = UpdateOfStage(engineLog[k].stage)}) = 1
            /\ Cardinality({e \in DOMAIN events : events[e] = Event("Failed")}) = 1
            /\ events[Len(events)] = Event("Failed")
            /\ nodes = [id \in OutputNodeIds |-> EmptyContent]

\* The engine failed in a stage that is not the last of its pipeline.
EngineFailedBeforeLastStage ==
    /\ Len(engineLog) >= 1
    /\ UpdateFailed(Len(engineLog))
    /\ engineLog[Len(engineLog)].stage + 1 < Len(parameters.stages)

\* The engine transform with the content of a transform node of the scene.
TransformOfNode(id) == [origin |-> "node", node |-> id]

\* C25: the initial transform the engine is given for stage 0 is the one of
\* the bound initialTransformNode when there is one, and the identity when
\* there is none.
InitialTransformFollowsSetting ==
    \A k \in DOMAIN engineLog :
        engineLog[k].stage = 0 =>
            engineLog[k].config.InitialTransform =
                IF parameters.initialTransformSettings.initialTransformNode = NoneRef
                THEN IdentityTransform
                ELSE TransformOfNode(parameters.initialTransformSettings.initialTransformNode)

\* What process() reads from the stage of the k-th engine call.
StageOfCall(k) == parameters.stages[engineLog[k].stage + 1]
IterationsOf(stage) ==
    [i \in DOMAIN stage.levels.steps |-> stage.levels.steps[i].convergence]

\* C26: for a SyN stage the engine is told SyNOnly and is given the stage's
\* metric and iterations by SetSynMetric and SetSynIterations; for a stage
\* of a linear type the engine is told that type and is given metric and
\* iterations by SetAffineMetric and SetAffineIterations.
TransformTypeSelectsSetters ==
    \A k \in DOMAIN engineLog :
        /\ StageOfCall(k).transformParameters.transform = "SyN" =>
              /\ engineLog[k].config.TypeOfTransform = "SyNOnly"
              /\ engineLog[k].config.SynMetric = StageOfCall(k).metrics[1].type
              /\ engineLog[k].config.SynIterations = IterationsOf(StageOfCall(k))
        /\ StageOfCall(k).transformParameters.transform \in RunLinearTypes =>
              /\ engineLog[k].config.TypeOfTransform =
                     StageOfCall(k).transformParameters.transform
              /\ engineLog[k].config.AffineMetric = StageOfCall(k).metrics[1].type
              /\ engineLog[k].config.AffineIterations = IterationsOf(StageOfCall(k))

\* The engine has run a linear stage of a type other than Rigid and then a
\* SyN stage.
LinearThenSyNStageRun ==
    /\ Len(engineLog) >= 2
    /\ StageOfCall(1).transformParameters.transform = "Similarity"
    /\ StageOfCall(2).transformParameters.transform = "SyN"
    /\ engineLog[2].config.TypeOfTransform = "SyNOnly"

\* The flag a settings text stands for: "1" and "True" are true, "0" and
\* "False" are false.
ConfiguredFlag(text) == text \in {"1", "True", "true"}

\* C27: the metric settings the engine is given in a call are the ones
\* configured for the stage: the bin count or the radius, the sampling rate,
\* and a gradient-filter flag that is TRUE exactly when the configured flag
\* is true.
MetricSettingsAreForwarded ==
    \A k \in DOMAIN engineLog :
        /\ IF StageOfCall(k).metrics[1].type \in {"MI", "Mattes"}
           THEN engineLog[k].config.NumberOfBins = StageOfCall(k).metrics[1].settings[2]
           ELSE engineLog[k].config.Radius = StageOfCall(k).metrics[1].settings[2]
        /\ engineLog[k].config.SamplingRate = StageOfCall(k).metrics[1].settings[4]
        /\ engineLog[k].config.UseGradientFilter =
               ConfiguredFlag(StageOfCall(k).metrics[1].settings[5])

(***************************************************************************)
(* The codec on its own: the two conversions called on the transforms of   *)
(* the engine and the nodes of the scene.                                  *)
(***************************************************************************)
MaxConversions == 2
EngineTransforms == {[kind |-> kind, parameters |-> "p"] : kind \in ItkKinds}

InitCodec == Init

\* itkTransformFromTransformNode(transformNode)
ToEngineTransform ==
    /\ opCount < MaxConversions
    /\ \E transformNode \in {NoneRef} \cup (DOMAIN nodes \ {"outVolume"}) :
         \E fault \in CodecFaults :
            LET r == itkTransformFromTransformNode(transformNode, fault, nodes, tempFiles)
            IN  /\ tempFiles' = r.files
                /\ lastOp' = [op |-> "itkTransformFromTransformNode",
                              outcome |-> r.outcome, refresh |-> "none",
                              input |-> [transformNode |-> transformNode,
                                         fault |-> fault],
                              seen |-> <<>>, reentrant |-> <<>>,
                              result |-> r.transform]
    /\ opCount' = opCount + 1
    /\ UNCHANGED <<parameterNode, ui, updatingGUIFromParameterNode, presetFiles,
                   parameters, pc, stage_index, initial_itk_transform, ants_reg,
                   engineLog, events, nodes, suspendedRuns>>

\* transformNodeFromItkTransform(itkTransform, transformNode)
ToHostTransform ==
    /\ opCount < MaxConversions
    /\ \E itkTransform \in EngineTransforms :
         \E transformNode \in {NoneRef, "fwdNode"} :
            \E fault \in CodecFaults :
               LET r == transformNodeFromItkTransform(itkTransform, transformNode,
                                                      fault, nodes, tempFiles)
               IN  /\ tempFiles' = r.files
                   /\ nodes' = r.scene
                   /\ lastOp' = [op |-> "transformNodeFromItkTransform",
                                 outcome |-> r.outcome, refresh |-> "none",
                                 input |-> [itkTransform |-> itkTransform,
                                            transformNode |-> transformNode,
                                            fault |-> fault],
                                 seen |-> <<>>, reentrant |-> <<>>,
                                 result |-> r.node]
    /\ opCount' = opCount + 1
    /\ UNCHANGED <<parameterNode, ui, updatingGUIFromParameterNode, presetFiles,
                   parameters, pc, stage_index, initial_itk_transform, ants_reg,
                   engineLog, events, suspendedRuns>>

NextCodec ==
    \/ ToEngineTransform
    \/ ToHostTransform

\* The codec: every sequence of up to MaxConversions conversions.
SpecCodec == InitCodec /\ [][NextCodec]_vars

\* C28: after a conversion has returned or failed, at whatever step, no
\* temporary file it created remains.
NoTemporaryFileRemains == tempFiles = <<>>

\* The host object the codec is to give for a kind of engine transform:
\* the linear transform object for the linear kinds, the displacement-field
\* object for the free-form deformation kinds, the generic container for
\* the composite; NoneRef for a kind of no recognized category.
HostClassOf(kind) ==
    CASE kind = "AffineTransform" -> "vtkMRMLLinearTransformNode"
      [] kind \in {"BSplineTransform", "DisplacementFieldTransform"} ->
             "vtkMRMLGridTransformNode"
      [] kind = "CompositeTransform" -> "vtkMRMLTransformNode"
      [] OTHER -> NoneRef

\* C29: transformNodeFromItkTransform fails with its unsupported-kind error
\* for a transform of no recognized kind, with or without a node given, and
\* the node it returns otherwise is of the class its kind selects.
HostTypeFollowsKind ==
    lastOp.op = "transformNodeFromItkTransform" =>
        IF HostClassOf(lastOp.input.itkTransform.kind) = NoneRef
        THEN lastOp.outcome = "ValueError"
        ELSE lastOp.outcome = "returned" =>
                 ClassOfNode(lastOp.result) = HostClassOf(lastOp.input.itkTransform.kind)

IsPump(e) == e.event = "pump"

\* C30: between two Update calls of the engine in a run, and between an
\* Update call and the writing of an output, the driver has called
\* processEvents at least once.
DriverYieldsBetweenEngineCalls ==
    \A i \in DOMAIN events : \A j \in DOMAIN events :
        (/\ i < j
         /\ IsUpdate(events[i])
         /\ events[j].event \in {"Update", "write"})
        => \E k \in (i + 1)..(j - 1) : IsPump(events[k])

\* A run of several stages has written its outputs.
SeveralStagesRunAndWritten ==
    /\ pc = "Done"
    /\ Len(engineLog) >= 2
    /\ \E j \in DOMAIN events : events[j].event = "write"

\* The mask the engine is to work with for a configured mask: the mask, or
\* none (what the new engine object holds) when the stage has no mask.
MaskInEffect(mask) == IF hasMask(mask) THEN mask ELSE NewAntsReg.FixedImageMask

\* C35: in every call of the engine's Update, the masks the engine holds are
\* the masks of the stage it optimises; none where the stage has none.
EngineMasksAreTheStagesMasks ==
    \A k \in DOMAIN engineLog :
        /\ engineLog[k].config.FixedImageMask = MaskInEffect(StageOfCall(k).masks.fixed)
        /\ engineLog[k].config.MovingImageMask = MaskInEffect(StageOfCall(k).masks.moving)

\* The output objects as they are before a run.
OutputsBeforeRun == [id \in OutputNodeIds |-> EmptyContent]

\* The run has reached the part of process() after the loop.
ReachedFinalize == \E k \in DOMAIN events : events[k].event = "Finalize"

\* C36: until every stage has completed no output object differs from what
\* it was before the run, so a run that fails before or inside the loop
\* leaves all three untouched; and an output object is written only when its
\* reference is set in the output settings.
OutputsWrittenOnlyAfterLoop ==
    /\ ~ReachedFinalize => nodes = OutputsBeforeRun
    /\ \A id \in DOMAIN nodes :
           nodes[id] # OutputsBeforeRun[id]
               => id \in {parameters.outputSettings.forwardTransform,
                          parameters.outputSettings.inverseTransform,
                          parameters.outputSettings.volume}

\* A run with all three outputs given fails in the loop after a stage has
\* been optimised.
FailedInLoopWithOutputsGiven ==
    /\ pc = "Failed"
    /\ ~ReachedFinalize
    /\ Len(engineLog) >= 1
    /\ parameters.outputSettings.forwardTransform # NoneRef
    /\ parameters.outputSettings.inverseTransform # NoneRef
    /\ parameters.outputSettings.volume # NoneRef


(***************************************************************************)
(* Settings and presets: the settings widgets connected to                 *)
(* updateParameterNodeFromGUI are changed and presets are selected.        *)
(***************************************************************************)
\* One settings widget changed by the user: the widget and its new value.
SettingsEdits ==
    <<[widget |-> "dimensionality", value |-> 2],
      [widget |-> "dimensionality", value |-> 3],
      [widget |-> "outputInterpolation", value |-> "BSpline"],
      [widget |-> "histogramMatching", value |-> TRUE],
      [widget |-> "outputForwardTransform", value |-> "fwdNode"],
      [widget |-> "initialTransformNode", value |-> "initNode"]>>

\* dimensionalitySpinBox, outputInterpolationComboBox, histogramMatchingCheckBox,
\* outputForwardTransformComboBox, initialTransformNodeComboBox: each signal
\* is connected to updateParameterNodeFromGUI.
EditSettings ==
    \E k \in DOMAIN SettingsEdits :
        /\ ui[SettingsEdits[k].widget] # SettingsEdits[k].value
        /\ LET u == [ui EXCEPT ![SettingsEdits[k].widget] = SettingsEdits[k].value]
               r == updateParameterNodeFromGUI(parameterNode, u,
                                               updatingGUIFromParameterNode)
           IN  Finish("updateParameterNodeFromGUI", SettingsOf(u), u, r)

NextLoad ==
    \/ EditSettings
    \/ SelectOutputVolume
    \/ SelectPreset

\* The widget with its settings edited and presets loaded.
SpecLoad == Init /\ [][NextLoad]_vars

\* The keys of the store other than the stages list and the current stage.
SettingKeys ==
    {"OutputForwardTransform", "OutputInverseTransform", "OutputVolume",
     "InitialTransform", "OutputInterpolation", "OutputDisplacementField",
     "initializationFeature", "Dimensionality", "HistogramMatching",
     "WinsorizeImageIntensities", "ComputationPrecision"}

\* C37: a step of onPresetSelected leaves every key of the store other than
\* the stages list and the current stage as it was: the general settings,
\* the initial-transform settings, the output settings and the output
\* references.
PresetLoadKeepsSettings ==
    [][(opCount' # opCount /\ lastOp'.op = "onPresetSelected")
          => \A key \in SettingKeys : parameterNode'[key] = parameterNode[key]]_vars

\* A preset has been loaded into a store whose dimensionality, interpolation
\* and output volume are not those of the preset document.
PresetLoadedOverOtherSettings ==
    /\ lastOp.op = "onPresetSelected"
    /\ lastOp.outcome = "done"
    /\ lastOp.input.presetName \in PresetNames
    /\ parameterNode.StagesJson
           = JsonDumps([i \in DOMAIN getPresetParametersByName(lastOp.input.presetName).stages |->
                          [getPresetParametersByName(lastOp.input.presetName).stages[i] EXCEPT
                             !.metrics[1].fixed = ui.fixedImageNode,
                             !.metrics[1].moving = ui.movingImageNode]])
    /\ parameterNode.Dimensionality = "2"
    /\ getPresetParametersByName(lastOp.input.presetName).generalSettings.dimensionality = 3
    /\ parameterNode.OutputInterpolation = "BSpline"
    /\ getPresetParametersByName(lastOp.input.presetName).outputSettings.interpolation = "Linear"
    /\ parameterNode.OutputVolume = "outVolume"


\* C31: between two handlers no refresh is executing, and the guard is
\* false: also after a refresh that ended with an error.
GuardIsClearBetweenHandlers ==
    /\ updatingGUIFromParameterNode = FALSE
    /\ lastOp.refresh = "raised" => ~updatingGUIFromParameterNode


(***************************************************************************)
(* The module in use: the Run button, the scene being closed, and the      *)
(* handlers that run while process() waits inside processEvents.           *)
(***************************************************************************)
\* The calls of process() that may wait inside processEvents at once.
MaxNesting == 1

\* The handlers that run in one session.
MaxSessionOps == 2

\* The store of a scene that was saved with the stages of a preset bound to
\* two volumes and an output volume selected.
SavedStore(presetName) ==
    [setDefaultParametersFrom(EmptyParameterNode, PresetFile("Rigid")) EXCEPT
        !.StagesJson = JsonDumps([i \in DOMAIN PresetFile(presetName).stages |->
                                    [PresetFile(presetName).stages[i] EXCEPT
                                        !.metrics[1].fixed = "vol1",
                                        !.metrics[1].moving = "vol2"]]),
        !.OutputVolume = "outVolume"]

\* setup() on such a scene: the store is set and the widgets are refreshed
\* from it; nothing runs.
InitSession ==
    /\ \E presetName \in BundledPresetNames :
          LET r == setParameterNode(SavedStore(presetName), InitialUi, FALSE)
          IN  /\ parameterNode = r.node
              /\ ui = r.ui
              /\ updatingGUIFromParameterNode = r.updating
              /\ lastOp = Record("setup", NoInput, Setup(r.node), r)
    /\ presetFiles = BundledPresets
    /\ opCount = 0
    /\ RunIdle

\* ANTsRegistrationWidget.onSceneStartClose: setParameterNode(None)
SceneStartClose ==
    /\ ~parameterNode.isNone
    /\ Finished("onSceneStartClose", NoInput, NoWrite("done", NoParameterNode),
                setParameterNode(NoParameterNode, ui, updatingGUIFromParameterNode))

\* ANTsRegistrationWidget.initializeParameterNode: the store the widget has,
\* or the logic's parameter node (a new one after the scene was closed).
initializeParameterNode(node, u, updating) ==
    setParameterNode(IF node.isNone THEN EmptyParameterNode ELSE node, u, updating)

\* ANTsRegistrationWidget.onSceneEndClose: a store is set again when the
\* module is the one shown, else the widget stays without a store.
SceneEndClose ==
    /\ parameterNode.isNone
    /\ \E isEntered \in BOOLEAN :
          Finished("onSceneEndClose", [isEntered |-> isEntered],
                   NoWrite("done", parameterNode),
                   IF isEntered
                   THEN initializeParameterNode(parameterNode, ui,
                                                updatingGUIFromParameterNode)
                   ELSE [ui |-> ui, updating |-> updatingGUIFromParameterNode,
                         outcome |-> "none", node |-> parameterNode,
                         reentrant |-> <<>>])

\* ANTsRegistrationWidget.onRunRegistrationButton up to the call of
\* process(): createProcessParameters reads the store, with no test that
\* there is one.
onRunRegistrationButton(node) ==
    IF node.isNone THEN [raised |-> TRUE, parameters |-> [none |-> TRUE]]
    ELSE createProcessParameters(node)

\* A call of process() is between its first and its last line.
Running == pc \in {"Init", "PerStage", "Finalize"}

\* What a call of process() holds while it waits inside processEvents.
RunFrame ==
    [parameters |-> parameters, pc |-> pc, stage_index |-> stage_index,
     initial_itk_transform |-> initial_itk_transform, ants_reg |-> ants_reg,
     engineLog |-> engineLog, events |-> events]

\* runRegistrationButton clicked, the button being enabled: the handler
\* builds the parameters from the store and calls process(), which runs up
\* to its first processEvents.  Nothing tests whether a call of process()
\* is waiting: that call stays suspended until the new one has ended.
RunRegistration ==
    /\ ui.runEnabled
    /\ Running => Len(suspendedRuns) < MaxNesting
    /\ opCount < MaxSessionOps
    /\ opCount' = opCount + 1
    /\ LET r == onRunRegistrationButton(parameterNode)
       IN  /\ lastOp' = [op |-> "onRunRegistrationButton",
                         outcome |-> IF r.raised THEN "raised" ELSE "done",
                         refresh |-> "none", input |-> [nested |-> Running],
                         seen |-> <<>>, reentrant |-> <<>>]
           /\ IF r.raised
              THEN UNCHANGED <<parameters, pc, stage_index, initial_itk_transform,
                               ants_reg, engineLog, events, suspendedRuns>>
              ELSE /\ parameters' = r.parameters
                   /\ pc' = "Init"
                   /\ stage_index' = 0
                   /\ initial_itk_transform' = UnsetTransform
                   /\ ants_reg' = NewAntsReg
                   /\ engineLog' = <<>>
                   /\ events' = <<[event |-> "Init", store |-> parameterNode]>>
                   /\ suspendedRuns' = IF Running THEN Append(suspendedRuns, RunFrame)
                                       ELSE suspendedRuns
    /\ UNCHANGED <<parameterNode, ui, updatingGUIFromParameterNode, presetFiles,
                   nodes, tempFiles>>

\* A call of process() made from inside processEvents has ended, by its
\* last line or by an exception (which the slot's caller reports and drops):
\* the call that waited goes on after that processEvents.
ResumeRun ==
    /\ pc \in {"Done", "Failed"}
    /\ suspendedRuns # <<>>
    /\ parameters' = suspendedRuns[Len(suspendedRuns)].parameters
    /\ pc' = suspendedRuns[Len(suspendedRuns)].pc
    /\ stage_index' = suspendedRuns[Len(suspendedRuns)].stage_index
    /\ initial_itk_transform' = suspendedRuns[Len(suspendedRuns)].initial_itk_transform
    /\ ants_reg' = suspendedRuns[Len(suspendedRuns)].ants_reg
    /\ engineLog' = suspendedRuns[Len(suspendedRuns)].engineLog
    /\ events' = suspendedRuns[Len(suspendedRuns)].events
    /\ suspendedRuns' = SubSeq(suspendedRuns, 1, Len(suspendedRuns) - 1)
    /\ UNCHANGED <<guiVars, nodes, tempFiles>>

\* The steps of a call of process(), and the return to the call that waited.
RunSteps ==
    \/ ProcessInit
    \/ ProcessStage
    \/ ProcessStageFails
    \/ ProcessFinalize
    \/ ResumeRun

\* The scene is closed, and the handlers run with or without a store.
SceneHandlers ==
    /\ opCount < MaxSessionOps
    /\ \/ SceneStartClose
       \/ SceneEndClose
       \/ SelectFixedImage
       \/ EditMasks
       \/ SelectOutputVolume
       \/ SelectPreset
       \/ RemoveStage
       \/ SavePreset
       \/ RunRegistration

NextScene == SceneHandlers \/ RunSteps

\* The widget across the closing of the scene.
SpecScene == InitSession /\ [][NextScene]_vars

\* The Run button and the handlers that edit the store, at any time: also
\* while a call of process() waits inside processEvents.
SessionHandlers ==
    /\ opCount < MaxSessionOps
    /\ \/ RunRegistration
       \/ SelectFixedImage
       \/ EditMasks
       \/ AddStageRow
       \/ RemoveStage
       \/ SelectPreset

NextSession == SessionHandlers \/ RunSteps

\* Runs started from the widget, and the handlers of the widget while a run
\* waits inside processEvents.
SpecSession == InitSession /\ [][NextSession]_vars


\* The handlers that read or write the store.
StoreHandlers ==
    {"updateParameterNodeFromGUI", "updateStagesFromFixedMovingNodes",
     "updateStagesParameterFromGUI", "onPresetSelected",
     "onRemoveStageButtonClicked", "onSavePresetPushButton",
     "onRunRegistrationButton"}

\* C32: a handler that reads or writes the store and is run while the widget
\* has no store returns on its guard: it raises no error and does nothing.
HandlersWithoutStoreReturn ==
    (parameterNode.isNone /\ lastOp.op \in StoreHandlers)
        => lastOp.outcome = "dropped"


\* C33: no call of process() waits inside processEvents for another call of
\* process(): at most one run is active.
AtMostOneRunIsActive ==
    /\ suspendedRuns = <<>>
    /\ (lastOp.op = "onRunRegistrationButton" /\ lastOp.outcome = "done")
           => ~lastOp.input.nested


\* The parameters createProcessParameters made of the store the run was
\* started on.
SnapshotOfRun == createProcessParameters(events[1].store).parameters

\* The engine as configured for call k is what the setters of the loop give
\* for this stage and these images.
ConfiguredAs(k, stage, fixedImage, movingImage) ==
    engineLog[k].config = configureStage(engineLog[k].config, stage, fixedImage,
                                         movingImage,
                                         engineLog[k].config.InitialTransform)

\* C34: the stages a run executes are those of the store as it was when the
\* run started, in their order, each with its parameters and on the images
\* of that store, whatever the handlers have written to the store since; a
\* run that reaches its end has executed each of them.
RunExecutesItsSnapshot ==
    pc # "Idle" =>
        /\ parameters = SnapshotOfRun
        /\ \A k \in DOMAIN engineLog :
              /\ engineLog[k].stage = k - 1
              /\ k <= Len(SnapshotOfRun.stages)
              /\ ConfiguredAs(k, SnapshotOfRun.stages[k],
                              SnapshotOfRun.stages[1].metrics[1].fixed,
                              SnapshotOfRun.stages[1].metrics[1].moving)
        /\ pc \in {"Finalize", "Done"} => Len(engineLog) = Len(SnapshotOfRun.stages)

\* A run is inside its loop, with a stage executed and a stage to come,
\* and the store has been given another, shorter stages list since the run
\* started: the stage to come is no longer in the store.
StoreEditedDuringRun ==
    /\ pc = "PerStage"
    /\ Len(engineLog) >= 1
    /\ ~parameterNode.isNone
    /\ parameterNode # events[1].store
    /\ Len(parameterNode.StagesJson) <= stage_index
    /\ stage_index < Len(parameters.stages)

=============================================================================
